---- MODULE Spec2Model ----
(***************************************************************************)
(* Model of the oarkflow/payment core: the geography table (region.go),    *)
(* the GatewayRegistry (registry.go) and the PaymentManager (manager.go).  *)
(*                                                                         *)
(* Go maps are partial functions (a key is present iff it is in DOMAIN);   *)
(* map[string]bool maps that only ever store true are sets.  An error     *)
(* value is the sequence of the messages of its Unwrap chain, outermost    *)
(* first; <<>> is the nil error.  A *Response pointer is a sequence of     *)
(* length at most one; <<>> is nil.  `invoked` and `built` are what the    *)
(* instances and factories saw: each invocation with what it answered;    *)
(* `emitted` is the order in which a loop over a map appended, and `inner` *)
(* what a call the operation made on another object returned.  For a      *)
(* registration, `repeat` tells that the same scope, key and method were   *)
(* registered before and the method has the priority now passed.  `ctx`   *)
(* is the context the caller passed and `requests` the contexts of the     *)
(* HTTP requests the call made.                                            *)
(***************************************************************************)
EXTENDS Integers, Sequences, FiniteSets, TLC

(***************************************************************************)
(* Bounds of the model.                                                    *)
(***************************************************************************)
\* largest priority number a registration call passes
MaxPriority == 2
\* number of distinct (scope, key, method) grants made in the registry specification
MaxGrants == 3
\* number of grants (over both registries) and live instances set up in the
\* manager specification
MaxSetup == 4
\* number of entries of the instance map and the factory map together in the
\* installation specification
MaxInstalled == 3
\* number of methods registered for the country in the recommendation
\* specification
MaxCountryScope == 4

VARIABLES
    registries,   \* registry id -> GatewayRegistry object (its four maps)
    granted,      \* registry id -> the (scope, key, method) triples registered so far
    gateways,     \* PaymentManager.gateways : method -> live instance
    factories,    \* PaymentManager.factories: method -> factory
    pmRegistry,   \* PaymentManager.registry : id of the registry in use
    last,         \* the most recent call: operation, arguments and what it returned
    mu,           \* lock -> who holds it: PaymentManager.mu and each registry's mu
    threads       \* goroutine -> the call it is inside and the statement it is at

vars == <<registries, granted, gateways, factories, pmRegistry, last, mu, threads>>

(***************************************************************************)
(* region.go: the geography table.                                         *)
(***************************************************************************)
RegionSouthAsia == "south-asia"
RegionSoutheastAsia == "southeast-asia"
RegionEastAsia == "east-asia"
RegionNorthAmerica == "north-america"
RegionEurope == "europe"
RegionMiddleEast == "middle-east"
RegionAfrica == "africa"
RegionOceania == "oceania"
RegionLatinAmerica == "latin-america"
RegionGlobal == "global"

CountryGlobal == "GLOBAL"

SouthAsiaCountries == {"NP", "IN", "PK", "BD", "LK"}
SoutheastAsiaCountries == {"SG", "MY", "ID", "TH", "PH", "VN"}
EastAsiaCountries == {"CN", "JP", "KR"}
NorthAmericaCountries == {"US", "CA", "MX"}
EuropeCountries == {"GB", "DE", "FR", "ES", "IT"}
MiddleEastCountries == {"AE", "SA"}
AfricaCountries == {"NG", "ZA", "KE"}
OceaniaCountries == {"AU", "NZ"}
LatinAmericaCountries == {"BR", "AR"}

TableCountries ==
    SouthAsiaCountries \cup SoutheastAsiaCountries \cup EastAsiaCountries
        \cup NorthAmericaCountries \cup EuropeCountries \cup MiddleEastCountries
        \cup AfricaCountries \cup OceaniaCountries \cup LatinAmericaCountries

CountryToRegion ==
    [c \in TableCountries |->
        CASE c \in SouthAsiaCountries -> RegionSouthAsia
          [] c \in SoutheastAsiaCountries -> RegionSoutheastAsia
          [] c \in EastAsiaCountries -> RegionEastAsia
          [] c \in NorthAmericaCountries -> RegionNorthAmerica
          [] c \in EuropeCountries -> RegionEurope
          [] c \in MiddleEastCountries -> RegionMiddleEast
          [] c \in AfricaCountries -> RegionAfrica
          [] c \in OceaniaCountries -> RegionOceania
          [] c \in LatinAmericaCountries -> RegionLatinAmerica]

\* a lookup without the default: an unlisted country has no region
GetRegionUnlisted(country) ==
    IF country \in DOMAIN CountryToRegion
        THEN CountryToRegion[country]
        ELSE ""

GetRegion(country) ==
    IF country \in DOMAIN CountryToRegion
        THEN CountryToRegion[country]
        ELSE RegionGlobal

(***************************************************************************)
(* Inputs the callers draw from.                                           *)
(***************************************************************************)
\* method names (any string is a method; three are enough for a sort to matter)
Methods == {"esewa", "khalti", "stripe"}
\* country codes asked about: two of one region and one absent from the table
\* (its region is "global", another region than theirs)
Countries == {"NP", "IN", "XX"}
\* country codes registered for
RegCountries == {"NP", "XX"}
\* regions registered for: the regions of Countries
Regions == {GetRegion(c) : c \in Countries}
Priorities == 1..MaxPriority
\* the registry NewPaymentManager creates and one the caller builds
OwnRegistry == "own"
CallerRegistry == "caller"
RegistryIds == {OwnRegistry, CallerRegistry}

\* the goroutines that call the manager and the registries at the same time
Goroutines == {"g1", "g2"}
\* PaymentManager.mu and the mu of each GatewayRegistry
ManagerLock == "pm.mu"
LockIds == {ManagerLock} \cup RegistryIds
\* a sync.RWMutex nobody holds
Unlocked == [l \in LockIds |-> [writer |-> {}, readers |-> {}, pending |-> {}]]
\* a goroutine outside every call
Idle ==
    [op |-> "", pc |-> 0, rid |-> "", country |-> "", method |-> "",
     reg |-> "", g |-> <<>>, list |-> <<>>, ok |-> FALSE, err |-> <<>>]
NoGoroutines == [t \in Goroutines |-> Idle]

(***************************************************************************)
(* registry.go: GatewayRegistry.                                           *)
(***************************************************************************)
NewGatewayRegistry ==
    [globalGateways  |-> {},
     regionGateways  |-> <<>>,
     countryGateways |-> <<>>,
     gatewayPriority |-> <<>>]

\* the elements of a slice
Range(s) == {s[i] : i \in DOMAIN s}

\* m[key] = value on a Go map
MapSet(m, key, value) ==
    IF key \in DOMAIN m THEN [m EXCEPT ![key] = value] ELSE m @@ (key :> value)

\* a registration that makes the scope's map anew every time
AddToScopeRemade(m, key, method) ==
    MapSet(m, key, {method})

\* if m[key] == nil { m[key] = make(map) }; m[key][method] = true
AddToScope(m, key, method) ==
    LET made == IF key \notin DOMAIN m THEN MapSet(m, key, {}) ELSE m
    IN  [made EXCEPT ![key] = @ \cup {method}]

\* a registration that keeps the priority a method already has
DoRegisterGlobalFirstWins(r, method, priority) ==
    [r EXCEPT !.globalGateways = @ \cup {method},
              !.gatewayPriority = IF method \in DOMAIN @ THEN @
                                                         ELSE MapSet(@, method, priority)]

DoRegisterGlobal(r, method, priority) ==
    [r EXCEPT !.globalGateways = @ \cup {method},
              !.gatewayPriority = MapSet(@, method, priority)]

\* a registration that starts the region's map afresh
DoRegisterRegionFreshMap(r, region, method, priority) ==
    [r EXCEPT !.regionGateways = MapSet(@, region, {method}),
              !.gatewayPriority = MapSet(@, method, priority)]

DoRegisterRegion(r, region, method, priority) ==
    [r EXCEPT !.regionGateways = AddToScope(@, region, method),
              !.gatewayPriority = MapSet(@, method, priority)]

\* a country registration that also writes the global map
DoRegisterCountryAlsoGlobal(r, country, method, priority) ==
    [r EXCEPT !.countryGateways = AddToScope(@, country, method),
              !.globalGateways = @ \cup {method},
              !.gatewayPriority = MapSet(@, method, priority)]

DoRegisterCountry(r, country, method, priority) ==
    [r EXCEPT !.countryGateways = AddToScope(@, country, method),
              !.gatewayPriority = MapSet(@, method, priority)]

\* r.gatewayPriority[method] read directly: the zero value when absent
RawPriority(r, method) ==
    IF method \in DOMAIN r.gatewayPriority THEN r.gatewayPriority[method] ELSE 0

DefaultPriority == 999

GetGatewayPriority(r, method) ==
    IF method \in DOMAIN r.gatewayPriority
        THEN r.gatewayPriority[method]
        ELSE DefaultPriority

\* a lookup that skips the region scope
IsGatewayAvailableSkipRegion(r, country, method) ==
    IF method \in r.globalGateways THEN TRUE
    ELSE IF /\ country \in DOMAIN r.countryGateways
            /\ method \in r.countryGateways[country] THEN TRUE
    ELSE FALSE

IsGatewayAvailable(r, country, method) ==
    IF method \in r.globalGateways THEN TRUE
    ELSE IF /\ GetRegion(country) \in DOMAIN r.regionGateways
            /\ method \in r.regionGateways[GetRegion(country)] THEN TRUE
    ELSE IF /\ country \in DOMAIN r.countryGateways
            /\ method \in r.countryGateways[country] THEN TRUE
    ELSE FALSE

\* one pass of the inner loop of sortByPriority: j runs from 0 to n-i-2
RECURSIVE InnerLoop(_, _, _, _)
\* an inner loop whose comparison is reversed
InnerLoopReversed(r, s, j, limit) ==
    IF j >= limit THEN s
    ELSE LET a == s[j + 1]
             b == s[j + 2]
         IN  IF RawPriority(r, a) < RawPriority(r, b)
                 THEN InnerLoop(r, [s EXCEPT ![j + 1] = b, ![j + 2] = a], j + 1, limit)
                 ELSE InnerLoop(r, s, j + 1, limit)

InnerLoop(r, s, j, limit) ==
    IF j >= limit THEN s
    ELSE LET a == s[j + 1]
             b == s[j + 2]
         IN  IF RawPriority(r, a) > RawPriority(r, b)
                 THEN InnerLoop(r, [s EXCEPT ![j + 1] = b, ![j + 2] = a], j + 1, limit)
                 ELSE InnerLoop(r, s, j + 1, limit)

RECURSIVE OuterLoop(_, _, _)
OuterLoop(r, s, i) ==
    IF i >= Len(s) - 1 THEN s
    ELSE OuterLoop(r, InnerLoop(r, s, 0, Len(s) - i - 1), i + 1)

sortByPriority(r, s) == OuterLoop(r, s, 0)

\* the keys GetAvailableGateways collects into gatewaysMap
GatewaysMap(r, country) ==
    r.globalGateways
        \cup (IF GetRegion(country) \in DOMAIN r.regionGateways
                 THEN r.regionGateways[GetRegion(country)] ELSE {})
        \cup (IF country \in DOMAIN r.countryGateways
                 THEN r.countryGateways[country] ELSE {})

\* the orders in which "for method := range gatewaysMap" can append the keys:
\* Go leaves the iteration order of a map unspecified
RangeOrders(S) ==
    {s \in [1..Cardinality(S) -> S] : \A i, j \in DOMAIN s : i # j => s[i] # s[j]}

\* what GetAvailableGateways returns when the map is ranged over in order s
GetAvailableGatewaysFrom(r, s) == sortByPriority(r, s)

\* every value GetAvailableGateways(country) can return
GetAvailableGateways(r, country) ==
    {GetAvailableGatewaysFrom(r, s) : s \in RangeOrders(GatewaysMap(r, country))}

NotAvailableError(country, method) ==
    <<"gateway " \o method \o " is not available for country " \o country>>

RegistryValidate(r, country, method) ==
    IF ~IsGatewayAvailable(r, country, method)
        THEN NotAvailableError(country, method)
        ELSE <<>>

(***************************************************************************)
(* The record of a call: the operation, its arguments and its results.     *)
(***************************************************************************)
NoCall ==
    [op |-> "", rid |-> "", key |-> "", method |-> "", priority |-> 0,
     ret |-> <<>>, err |-> <<>>, invoked |-> <<>>, built |-> <<>>,
     emitted |-> <<>>, inner |-> <<>>, repeat |-> FALSE,
     ctx |-> <<>>, requests |-> <<>>]

GlobalGrant(method) == <<"global", "", method>>
RegionGrant(region, method) == <<"region", region, method>>
CountryGrant(country, method) == <<"country", country, method>>

Init ==
    /\ registries = [rid \in RegistryIds |-> NewGatewayRegistry]
    /\ granted = [rid \in RegistryIds |-> {}]
    /\ gateways = <<>>
    /\ factories = <<>>
    /\ pmRegistry = OwnRegistry
    /\ last = NoCall
    /\ mu = Unlocked
    /\ threads = NoGoroutines

(***************************************************************************)
(* Calls are made by one caller at a time: a call is made when the         *)
(* previous one has returned, and `last` holds what the call returned      *)
(* until the caller goes on (Return).                                      *)
(***************************************************************************)
Ready == last = NoCall

Return ==
    /\ last # NoCall
    /\ last' = NoCall
    /\ UNCHANGED <<mu, threads, registries, granted, gateways, factories, pmRegistry>>

(***************************************************************************)
(* Calls on a registry.                                                    *)
(***************************************************************************)
\* the grant was made before and its method still has this priority
Repeats(rid, grant, priority) ==
    /\ grant \in granted[rid]
    /\ RawPriority(registries[rid], grant[3]) = priority

RegisterGlobalGateway(rid, method, priority) ==
    /\ Ready
    /\ registries' = [registries EXCEPT ![rid] = DoRegisterGlobal(@, method, priority)]
    /\ granted' = [granted EXCEPT ![rid] = @ \cup {GlobalGrant(method)}]
    /\ last' = [NoCall EXCEPT !.op = "RegisterGlobalGateway", !.rid = rid,
                              !.method = method, !.priority = priority,
                              !.repeat = Repeats(rid, GlobalGrant(method), priority)]
    /\ UNCHANGED <<mu, threads, gateways, factories, pmRegistry>>

RegisterRegionGateway(rid, region, method, priority) ==
    /\ Ready
    /\ registries' = [registries EXCEPT
                         ![rid] = DoRegisterRegion(@, region, method, priority)]
    /\ granted' = [granted EXCEPT ![rid] = @ \cup {RegionGrant(region, method)}]
    /\ last' = [NoCall EXCEPT !.op = "RegisterRegionGateway", !.rid = rid,
                              !.key = region, !.method = method,
                              !.priority = priority,
                              !.repeat =
                                  Repeats(rid, RegionGrant(region, method), priority)]
    /\ UNCHANGED <<mu, threads, gateways, factories, pmRegistry>>

RegisterCountryGateway(rid, country, method, priority) ==
    /\ Ready
    /\ registries' = [registries EXCEPT
                         ![rid] = DoRegisterCountry(@, country, method, priority)]
    /\ granted' = [granted EXCEPT ![rid] = @ \cup {CountryGrant(country, method)}]
    /\ last' = [NoCall EXCEPT !.op = "RegisterCountryGateway", !.rid = rid,
                              !.key = country, !.method = method,
                              !.priority = priority,
                              !.repeat =
                                  Repeats(rid, CountryGrant(country, method), priority)]
    /\ UNCHANGED <<mu, threads, gateways, factories, pmRegistry>>

CallIsGatewayAvailable(rid, country, method) ==
    /\ Ready
    /\ last' = [NoCall EXCEPT !.op = "IsGatewayAvailable", !.rid = rid,
                              !.key = country, !.method = method,
                              !.ret = IsGatewayAvailable(registries[rid], country, method)]
    /\ UNCHANGED <<mu, threads, registries, granted, gateways, factories, pmRegistry>>

CallGetGatewayPriority(rid, method) ==
    /\ Ready
    /\ last' = [NoCall EXCEPT !.op = "GetGatewayPriority", !.rid = rid,
                              !.method = method,
                              !.ret = GetGatewayPriority(registries[rid], method)]
    /\ UNCHANGED <<mu, threads, registries, granted, gateways, factories, pmRegistry>>

CallGetAvailableGateways(rid, country) ==
    /\ Ready
    /\ \E list \in GetAvailableGateways(registries[rid], country) :
           last' = [NoCall EXCEPT !.op = "GetAvailableGateways", !.rid = rid,
                                  !.key = country, !.ret = list]
    /\ UNCHANGED <<mu, threads, registries, granted, gateways, factories, pmRegistry>>

(***************************************************************************)
(* The registry on its own: registrations and reads of one registry.       *)
(***************************************************************************)
\* a registration of grant g keeps the number of distinct grants within MaxGrants
RoomFor(rid, g) == Cardinality(granted[rid] \cup {g}) <= MaxGrants

RegRegisterGlobal ==
    \E m \in Methods, p \in Priorities :
        /\ RoomFor(OwnRegistry, GlobalGrant(m))
        /\ RegisterGlobalGateway(OwnRegistry, m, p)

RegRegisterRegion ==
    \E reg \in Regions, m \in Methods, p \in Priorities :
        /\ RoomFor(OwnRegistry, RegionGrant(reg, m))
        /\ RegisterRegionGateway(OwnRegistry, reg, m, p)

RegRegisterCountry ==
    \E c \in RegCountries, m \in Methods, p \in Priorities :
        /\ RoomFor(OwnRegistry, CountryGrant(c, m))
        /\ RegisterCountryGateway(OwnRegistry, c, m, p)

RegIsGatewayAvailable ==
    \E c \in Countries, m \in Methods : CallIsGatewayAvailable(OwnRegistry, c, m)

RegGetAvailableGateways ==
    \E c \in Countries : CallGetAvailableGateways(OwnRegistry, c)

(***************************************************************************)
(* manager.go: PaymentManager.  Gateway instances and factories are the    *)
(* caller's: an instance is named by who built it, and what an instance   *)
(* answers when invoked is its own business (Outcomes).                   *)
(***************************************************************************)
\* the methods and factories of the manager's callers, the countries they ask
\* about and the countries they register for (they register globally as well)
MgrMethods == {"esewa", "stripe"}
MgrCountries == {"NP", "XX"}
MgrRegCountries == {"NP"}
\* the priorities they pass: two methods are before, after or level with each
\* other, and two numbers give all three
MgrPriorities == {1, 2}
FactoryIds == {"esewa.New", "stripe.New"}
Configs == {"sandbox", "production"}
\* instances the caller builds itself and hands to RegisterGateway
PreBuilt == {<<"caller", "spy">>, <<"caller", "mock">>}
\* what an invoked instance does: answer, or decline the operation
Outcomes == {"ok", "unsupported"}
DispatchOps == {"InitiatePayment", "VerifyPayment", "RefundPayment", "GetStatus"}

\* factory(config, pm.client): the instance that factory builds from config
CallFactory(factory, config) == <<factory, config>>

\* g.<op>(ctx, req) on instance g: its response and error
GatewayAnswer(g, op, outcome) ==
    IF outcome = "ok"
        THEN [ret |-> <<[from |-> g, op |-> op]>>, err |-> <<>>]
        ELSE [ret |-> <<>>, err |-> <<op \o " not supported by " \o g[1]>>]

NotRegisteredError(method) == <<"gateway " \o method \o " not registered">>

GetGateway(method) ==
    IF method \notin DOMAIN gateways
        THEN [g |-> <<>>, err |-> NotRegisteredError(method)]
        ELSE [g |-> <<gateways[method]>>, err |-> <<>>]

\* a dispatch that wraps the instance's error with the method's name
ForwardNamed(op, method, outcome) ==
    LET got == GetGateway(method)
    IN  IF got.err # <<>>
            THEN [ret |-> <<>>, err |-> got.err, invoked |-> <<>>]
            ELSE LET ans == GatewayAnswer(got.g[1], op, outcome)
                 IN  [ret |-> ans.ret,
                      err |-> IF ans.err = <<>> THEN <<>>
                              ELSE <<"gateway " \o method \o ": " \o ans.err[1]>>
                                       \o ans.err,
                      invoked |-> <<[g |-> got.g[1], op |-> op,
                                     ret |-> ans.ret, err |-> ans.err]>>]

\* the body the four dispatch operations share: GetGateway, then g.<op>
Forward(op, method, outcome) ==
    LET got == GetGateway(method)
    IN  IF got.err # <<>>
            THEN [ret |-> <<>>, err |-> got.err, invoked |-> <<>>]
            ELSE LET ans == GatewayAnswer(got.g[1], op, outcome)
                 IN  [ret |-> ans.ret, err |-> ans.err,
                      invoked |-> <<[g |-> got.g[1], op |-> op,
                                     ret |-> ans.ret, err |-> ans.err]>>]

InitiatePayment(method, outcome) == Forward("InitiatePayment", method, outcome)
VerifyPayment(method, outcome) == Forward("VerifyPayment", method, outcome)
\* a refund that forwards to the instance's VerifyPayment
RefundPaymentAsVerify(method, outcome) == Forward("VerifyPayment", method, outcome)

RefundPayment(method, outcome) == Forward("RefundPayment", method, outcome)
GetStatus(method, outcome) == Forward("GetStatus", method, outcome)

DispatchTo(op, method, outcome) ==
    CASE op = "InitiatePayment" -> InitiatePayment(method, outcome)
      [] op = "VerifyPayment" -> VerifyPayment(method, outcome)
      [] op = "RefundPayment" -> RefundPayment(method, outcome)
      [] op = "GetStatus" -> GetStatus(method, outcome)

\* a loop that keeps every method, configured or not
ConfiguredUnfiltered(availableInRegistry) == availableInRegistry

\* the loop of GetAvailableGatewaysForCountry over availableInRegistry
Configured(availableInRegistry) ==
    SelectSeq(availableInRegistry, LAMBDA method : method \in DOMAIN gateways)

\* every value GetAvailableGatewaysForCountry(country) can return
GetAvailableGatewaysForCountry(country) ==
    {Configured(availableInRegistry) :
        availableInRegistry \in GetAvailableGateways(registries[pmRegistry], country)}

NoGatewaysError(country) == <<"no gateways available for country " \o country>>

\* a recommendation that takes the last element
GetRecommendedGatewayLast(country, available) ==
    IF Len(available) = 0
        THEN [ret |-> "", err |-> NoGatewaysError(country)]
        ELSE [ret |-> available[Len(available)], err |-> <<>>]

\* GetRecommendedGateway, given what GetAvailableGatewaysForCountry returned
GetRecommendedGateway(country, available) ==
    IF Len(available) = 0
        THEN [ret |-> "", err |-> NoGatewaysError(country)]
        ELSE [ret |-> available[1], err |-> <<>>]

InitiatePaymentForCountry(country, available, outcome) ==
    LET rec == GetRecommendedGateway(country, available)
    IN  IF rec.err # <<>>
            THEN [ret |-> <<>>, err |-> rec.err, invoked |-> <<>>]
            ELSE InitiatePayment(rec.ret, outcome)

\* fmt.Errorf("gateway %s is available but not configured: %w", method, err)
NotConfiguredError(method, err) ==
    <<"gateway " \o method \o " is available but not configured: " \o err[1]>> \o err

\* an initiation that does not ask the registry
InitiatePaymentWithMethodUnvalidated(country, method, outcome) ==
    LET got == GetGateway(method)
    IN  IF got.err # <<>>
            THEN [ret |-> <<>>, err |-> NotConfiguredError(method, got.err),
                  invoked |-> <<>>]
            ELSE InitiatePayment(method, outcome)

\* an initiation that leaves the configured check to the dispatch
InitiatePaymentWithMethodUnchecked(country, method, outcome) ==
    LET invalid == RegistryValidate(registries[pmRegistry], country, method)
    IN  IF invalid # <<>>
            THEN [ret |-> <<>>, err |-> invalid, invoked |-> <<>>]
            ELSE InitiatePayment(method, outcome)

InitiatePaymentWithMethod(country, method, outcome) ==
    LET invalid == RegistryValidate(registries[pmRegistry], country, method)
        got == GetGateway(method)
    IN  IF invalid # <<>>
            THEN [ret |-> <<>>, err |-> invalid, invoked |-> <<>>]
        ELSE IF got.err # <<>>
            THEN [ret |-> <<>>, err |-> NotConfiguredError(method, got.err),
                  invoked |-> <<>>]
        ELSE InitiatePayment(method, outcome)

NoFactoryError(method) == <<"no factory registered for method: " \o method>>

(***************************************************************************)
(* Calls on the manager.                                                   *)
(***************************************************************************)
SetRegistry(rid) ==
    /\ Ready
    /\ pmRegistry' = rid
    /\ last' = [NoCall EXCEPT !.op = "SetRegistry", !.rid = rid]
    /\ UNCHANGED <<mu, threads, registries, granted, gateways, factories>>

RegisterFactory(method, factory) ==
    /\ Ready
    /\ factories' = MapSet(factories, method, factory)
    /\ last' = [NoCall EXCEPT !.op = "RegisterFactory", !.method = method,
                              !.key = factory]
    /\ UNCHANGED <<mu, threads, registries, granted, gateways, pmRegistry>>

RegisterGateway(method, gateway) ==
    /\ Ready
    /\ gateways' = MapSet(gateways, method, gateway)
    /\ last' = [NoCall EXCEPT !.op = "RegisterGateway", !.method = method,
                              !.ret = <<gateway>>]
    /\ UNCHANGED <<mu, threads, registries, granted, factories, pmRegistry>>

\* an installation that keeps an instance the method already has
RegisterGatewayWithConfigKeepsPrior(method, config) ==
    /\ Ready
    /\ IF method \notin DOMAIN factories
           THEN /\ last' = [NoCall EXCEPT !.op = "RegisterGatewayWithConfig",
                                          !.method = method, !.key = config,
                                          !.err = NoFactoryError(method)]
                /\ UNCHANGED gateways
           ELSE LET gateway == CallFactory(factories[method], config)
                IN  /\ gateways' = IF method \in DOMAIN gateways
                                       THEN gateways
                                       ELSE MapSet(gateways, method, gateway)
                    /\ last' = [NoCall EXCEPT !.op = "RegisterGatewayWithConfig",
                                              !.method = method, !.key = config,
                                              !.ret = <<gateway>>,
                                              !.built = <<[factory |-> factories[method],
                                                           config |-> config,
                                                           made |-> gateway]>>]
    /\ UNCHANGED <<mu, threads, registries, granted, factories, pmRegistry>>

RegisterGatewayWithConfig(method, config) ==
    /\ Ready
    /\ IF method \notin DOMAIN factories
           THEN /\ last' = [NoCall EXCEPT !.op = "RegisterGatewayWithConfig",
                                          !.method = method, !.key = config,
                                          !.err = NoFactoryError(method)]
                /\ UNCHANGED gateways
           ELSE LET gateway == CallFactory(factories[method], config)
                IN  /\ gateways' = MapSet(gateways, method, gateway)
                    /\ last' = [NoCall EXCEPT !.op = "RegisterGatewayWithConfig",
                                              !.method = method, !.key = config,
                                              !.ret = <<gateway>>,
                                              !.built = <<[factory |-> factories[method],
                                                           config |-> config,
                                                           made |-> gateway]>>]
    /\ UNCHANGED <<mu, threads, registries, granted, factories, pmRegistry>>

\* a dispatch that drops the instance whose operation failed
CallDispatchEvicts(op, method, outcome) ==
    /\ Ready
    /\ LET res == DispatchTo(op, method, outcome)
       IN  /\ last' = [NoCall EXCEPT !.op = op, !.method = method, !.ret = res.ret,
                                     !.err = res.err, !.invoked = res.invoked]
           /\ gateways' = IF res.err # <<>> /\ res.invoked # <<>>
                              THEN [m \in DOMAIN gateways \ {method} |-> gateways[m]]
                              ELSE gateways
    /\ UNCHANGED <<mu, threads, registries, granted, factories, pmRegistry>>

CallDispatch(op, method, outcome) ==
    /\ Ready
    /\ LET res == DispatchTo(op, method, outcome)
       IN  last' = [NoCall EXCEPT !.op = op, !.method = method, !.ret = res.ret,
                                  !.err = res.err, !.invoked = res.invoked]
    /\ UNCHANGED <<mu, threads, registries, granted, gateways, factories, pmRegistry>>

CallGetAvailableGatewaysForCountry(country) ==
    /\ Ready
    /\ \E configured \in GetAvailableGatewaysForCountry(country) :
           last' = [NoCall EXCEPT !.op = "GetAvailableGatewaysForCountry",
                                  !.key = country, !.ret = configured]
    /\ UNCHANGED <<mu, threads, registries, granted, gateways, factories, pmRegistry>>

CallGetRecommendedGateway(country) ==
    /\ Ready
    /\ \E available \in GetAvailableGatewaysForCountry(country) :
           LET res == GetRecommendedGateway(country, available)
           IN  last' = [NoCall EXCEPT !.op = "GetRecommendedGateway",
                                      !.key = country, !.method = res.ret,
                                      !.err = res.err]
    /\ UNCHANGED <<mu, threads, registries, granted, gateways, factories, pmRegistry>>

CallInitiatePaymentForCountry(country, outcome) ==
    /\ Ready
    /\ \E available \in GetAvailableGatewaysForCountry(country) :
           LET res == InitiatePaymentForCountry(country, available, outcome)
           IN  last' = [NoCall EXCEPT !.op = "InitiatePaymentForCountry",
                                      !.key = country, !.ret = res.ret,
                                      !.err = res.err, !.invoked = res.invoked]
    /\ UNCHANGED <<mu, threads, registries, granted, gateways, factories, pmRegistry>>

CallInitiatePaymentWithMethod(country, method, outcome) ==
    /\ Ready
    /\ LET res == InitiatePaymentWithMethod(country, method, outcome)
       IN  last' = [NoCall EXCEPT !.op = "InitiatePaymentWithMethod",
                                  !.key = country, !.method = method,
                                  !.ret = res.ret, !.err = res.err,
                                  !.invoked = res.invoked]
    /\ UNCHANGED <<mu, threads, registries, granted, gateways, factories, pmRegistry>>

(***************************************************************************)
(* The manager with its registries.                                        *)
(***************************************************************************)
\* what the callers have set up: the grants of both registries and the live
\* instances
SetupSize ==
    Cardinality(granted[OwnRegistry]) + Cardinality(granted[CallerRegistry])
        + Cardinality(DOMAIN gateways)

MgrRegisterGlobal ==
    \E rid \in RegistryIds, m \in MgrMethods, p \in MgrPriorities :
        /\ RegisterGlobalGateway(rid, m, p)
        /\ SetupSize' <= MaxSetup

MgrRegisterCountry ==
    \E rid \in RegistryIds, c \in MgrRegCountries, m \in MgrMethods,
       p \in MgrPriorities :
        /\ RegisterCountryGateway(rid, c, m, p)
        /\ SetupSize' <= MaxSetup

MgrSetRegistry == \E rid \in RegistryIds : SetRegistry(rid)

MgrRegisterGateway ==
    \E m \in MgrMethods, g \in PreBuilt :
        /\ RegisterGateway(m, g)
        /\ SetupSize' <= MaxSetup

MgrDispatch ==
    \E op \in DispatchOps, m \in MgrMethods, o \in Outcomes : CallDispatch(op, m, o)

MgrGetAvailableGatewaysForCountry ==
    \E c \in MgrCountries : CallGetAvailableGatewaysForCountry(c)

MgrGetRecommendedGateway ==
    \E c \in MgrCountries : CallGetRecommendedGateway(c)

MgrInitiatePaymentForCountry ==
    \E c \in MgrCountries, o \in Outcomes : CallInitiatePaymentForCountry(c, o)

MgrInitiatePaymentWithMethod ==
    \E c \in MgrCountries, m \in MgrMethods, o \in Outcomes :
        CallInitiatePaymentWithMethod(c, m, o)

Next ==
    \/ MgrRegisterGlobal
    \/ MgrRegisterCountry
    \/ MgrSetRegistry
    \/ MgrRegisterGateway
    \/ MgrDispatch
    \/ MgrGetAvailableGatewaysForCountry
    \/ MgrGetRecommendedGateway
    \/ MgrInitiatePaymentForCountry
    \/ MgrInitiatePaymentWithMethod
    \/ Return

Spec == Init /\ [][Next]_vars

(***************************************************************************)
(* Installation on its own: the manager's factory map and instance map.    *)
(***************************************************************************)
Installed == Cardinality(DOMAIN gateways) + Cardinality(DOMAIN factories)

InstRegisterFactory ==
    \E m \in Methods, f \in FactoryIds :
        /\ RegisterFactory(m, f)
        /\ Installed' <= MaxInstalled

InstRegisterGateway ==
    \E m \in Methods, g \in PreBuilt :
        /\ RegisterGateway(m, g)
        /\ Installed' <= MaxInstalled

InstRegisterGatewayWithConfig ==
    \E m \in Methods, cfg \in Configs :
        /\ RegisterGatewayWithConfig(m, cfg)
        /\ Installed' <= MaxInstalled

NextInstall ==
    \/ InstRegisterFactory
    \/ InstRegisterGateway
    \/ InstRegisterGatewayWithConfig
    \/ Return

SpecInstall == Init /\ [][NextInstall]_vars

(***************************************************************************)
(* Helpers of the properties.                                              *)
(***************************************************************************)
NoDuplicates(s) == \A i, j \in DOMAIN s : i # j => s[i] # s[j]
\* the methods the registrations made so far grant to a country
GrantedTo(rid, country) ==
    {m \in Methods :
        \/ GlobalGrant(m) \in granted[rid]
        \/ RegionGrant(GetRegion(country), m) \in granted[rid]
        \/ CountryGrant(country, m) \in granted[rid]}
\* the scopes, among those applicable to a country, that grant it a method
ScopesGranting(rid, country, m) ==
    {g \in {GlobalGrant(m), RegionGrant(GetRegion(country), m), CountryGrant(country, m)} :
        g \in granted[rid]}

(***************************************************************************)
(* The registry's properties.                                              *)
(***************************************************************************)
\* C1: IsGatewayAvailable(c, m) returns true exactly when m was registered
\* globally, or for the region GetRegion(c), or for the country c; this holds
\* for codes absent from the geography table too, and a method that was never
\* registered yields false.
C1_AvailableIffGranted ==
    last.op = "IsGatewayAvailable" =>
        /\ last.ret = (last.method \in GrantedTo(last.rid, last.key))
        /\ (\A g \in granted[last.rid] : g[3] # last.method) => last.ret = FALSE

\* C1 witness: a country absent from the table is answered true through a
\* registration for the region "global" alone.
C1_Witness ==
    /\ last.op = "IsGatewayAvailable"
    /\ last.key = "XX"
    /\ last.ret = TRUE
    /\ ScopesGranting(last.rid, "XX", last.method) = {RegionGrant(RegionGlobal, last.method)}
    /\ \E m \in Methods : \A g \in granted[last.rid] : g[3] # m

\* C2: the sequence GetAvailableGateways(c) returns is sorted ascending by
\* GetGatewayPriority, holds no method twice, and its methods are exactly the
\* union of the global methods, the methods of the region of c and the methods
\* of c (so it is empty when nothing is registered).
C2_SortedDedupUnion ==
    last.op = "GetAvailableGateways" =>
        LET r == registries[last.rid]
            list == last.ret
        IN  /\ \A i, j \in DOMAIN list :
                   i < j => GetGatewayPriority(r, list[i]) <= GetGatewayPriority(r, list[j])
            /\ NoDuplicates(list)
            /\ Range(list) = GrantedTo(last.rid, last.key)
            /\ granted[last.rid] = {} => list = <<>>

\* C2 witness: a method granted to the country by two scopes is listed once,
\* after a method of smaller priority.
C2_Witness ==
    /\ last.op = "GetAvailableGateways"
    /\ Len(last.ret) = 2
    /\ Cardinality(ScopesGranting(last.rid, last.key, last.ret[2])) = 2
    /\ GetGatewayPriority(registries[last.rid], last.ret[1])
           < GetGatewayPriority(registries[last.rid], last.ret[2])

\* C9: once m is registered for country c, IsGatewayAvailable(c, m) returns true,
\* and IsGatewayAvailable(c2, m) returns false for a country c2 of another region
\* that no registration grants m to.
C9_CountryScope ==
    last.op = "IsGatewayAvailable" =>
        /\ CountryGrant(last.key, last.method) \in granted[last.rid] => last.ret = TRUE
        /\ \A c \in RegCountries :
               /\ CountryGrant(c, last.method) \in granted[last.rid]
               /\ GetRegion(c) # GetRegion(last.key)
               /\ ScopesGranting(last.rid, last.key, last.method) = {}
               => last.ret = FALSE

\* C9 witness: m is registered for NP and the lookup for XX, a country of
\* another region, returns false.
C9_Witness ==
    /\ last.op = "IsGatewayAvailable"
    /\ last.key = "XX"
    /\ CountryGrant("NP", last.method) \in granted[last.rid]
    /\ last.ret = FALSE

\* C10: once m is registered for region R, IsGatewayAvailable(c, m) returns true
\* for every country c of region R, and false for a country of another region
\* that no other registration grants m to.
C10_RegionScope ==
    last.op = "IsGatewayAvailable" =>
        /\ RegionGrant(GetRegion(last.key), last.method) \in granted[last.rid]
               => last.ret = TRUE
        /\ \A reg \in Regions :
               /\ RegionGrant(reg, last.method) \in granted[last.rid]
               /\ reg # GetRegion(last.key)
               /\ ScopesGranting(last.rid, last.key, last.method) = {}
               => last.ret = FALSE

\* C10 witness: with two methods registered for south-asia and nothing else,
\* the lookup of the first of them for IN returns true.
C10_Witness ==
    /\ last.op = "IsGatewayAvailable"
    /\ last.key = "IN"
    /\ last.ret = TRUE
    /\ granted[last.rid] = {RegionGrant(RegionSouthAsia, "esewa"),
                            RegionGrant(RegionSouthAsia, "khalti")}
    /\ last.method = "esewa"

(***************************************************************************)
(* The manager's properties.                                               *)
(***************************************************************************)
\* the methods granted to a country by the manager's registry that have a live
\* instance
Usable(country) ==
    {m \in GrantedTo(pmRegistry, country) : m \in DOMAIN gateways}

\* C3: InitiatePaymentWithMethod(c, m) when the manager's registry does not make
\* m eligible for c returns the registry's not-eligible error, which names m and
\* c, and invokes no gateway instance, whether or not one is installed for m.
C3_NotEligibleShortCircuits ==
    (/\ last.op = "InitiatePaymentWithMethod"
     /\ last.method \notin GrantedTo(pmRegistry, last.key))
    => /\ last.err = <<"gateway " \o last.method \o " is not available for country "
                           \o last.key>>
       /\ last.ret = <<>>
       /\ last.invoked = <<>>

\* C3 witness: the method has a live instance, and is granted to the country by
\* the registry the manager no longer uses, yet the call fails.
C3_Witness ==
    /\ last.op = "InitiatePaymentWithMethod"
    /\ last.method \in DOMAIN gateways
    /\ last.method \notin GrantedTo(pmRegistry, last.key)
    /\ last.method \in GrantedTo(OwnRegistry, last.key)
    /\ last.err # <<>>

\* C4: InitiatePaymentWithMethod(c, m) when m is eligible for c but has no live
\* instance fails with the 'available but not configured' error, which is no
\* not-eligible error, and invokes no gateway instance.
C4_NotConfiguredDistinct ==
    (/\ last.op = "InitiatePaymentWithMethod"
     /\ last.method \in GrantedTo(pmRegistry, last.key)
     /\ last.method \notin DOMAIN gateways)
    => /\ last.err = <<"gateway " \o last.method
                           \o " is available but not configured: gateway "
                           \o last.method \o " not registered",
                       "gateway " \o last.method \o " not registered">>
       /\ \A c \in Countries, m \in Methods :
              last.err[1] # NotAvailableError(c, m)[1]
       /\ last.ret = <<>>
       /\ last.invoked = <<>>

\* C4 witness: the eligible method has no instance while the other method has
\* one.
C4_Witness ==
    /\ last.op = "InitiatePaymentWithMethod"
    /\ last.method \in GrantedTo(pmRegistry, last.key)
    /\ last.method \notin DOMAIN gateways
    /\ DOMAIN gateways # {}
    /\ Len(last.err) = 2

\* C5: GetAvailableGatewaysForCountry(c) is the subsequence of what the
\* registry's GetAvailableGateways(c) returns made of the methods that have a
\* live instance, in the same (priority) order.
C5_ConfiguredSubsequence ==
    last.op = "GetAvailableGatewaysForCountry" =>
        LET r == registries[pmRegistry]
            list == last.ret
        IN  /\ Range(list) = Usable(last.key)
            /\ NoDuplicates(list)
            /\ \A i, j \in DOMAIN list :
                   i < j => GetGatewayPriority(r, list[i]) <= GetGatewayPriority(r, list[j])
            /\ \E full \in GetAvailableGateways(r, last.key) :
                   list = SelectSeq(full, LAMBDA m : m \in DOMAIN gateways)

\* C5 witness: of two eligible methods the one of larger priority alone has an
\* instance and alone is returned.
C5_Witness ==
    /\ last.op = "GetAvailableGatewaysForCountry"
    /\ Len(last.ret) = 1
    /\ \E m \in GrantedTo(pmRegistry, last.key) :
           /\ m \notin DOMAIN gateways
           /\ GetGatewayPriority(registries[pmRegistry], m)
                  < GetGatewayPriority(registries[pmRegistry], last.ret[1])

\* C6: GetRecommendedGateway(c) returns a method of minimal priority among those
\* eligible for c and instantiated, the first element of
\* GetAvailableGatewaysForCountry(c); it returns the 'no gateways available'
\* error naming c exactly when there is no such method; and
\* InitiatePaymentForCountry returns that error without invoking a gateway.
C6_RecommendedIsFirst ==
    /\ last.op = "GetRecommendedGateway" =>
           /\ (last.err # <<>>) = (Usable(last.key) = {})
           /\ last.err # <<>> =>
                  /\ last.err = <<"no gateways available for country " \o last.key>>
                  /\ last.method = ""
           /\ last.err = <<>> =>
                  /\ last.method \in Usable(last.key)
                  /\ \A m \in Usable(last.key) :
                         GetGatewayPriority(registries[pmRegistry], last.method)
                             <= GetGatewayPriority(registries[pmRegistry], m)
                  /\ \E list \in GetAvailableGatewaysForCountry(last.key) :
                         list # <<>> /\ last.method = list[1]
    /\ (last.op = "InitiatePaymentForCountry" /\ Usable(last.key) = {}) =>
           /\ last.err = <<"no gateways available for country " \o last.key>>
           /\ last.ret = <<>>
           /\ last.invoked = <<>>

\* C6 witness: the recommended method is not the eligible method of smallest
\* priority, which has no instance.
C6_Witness ==
    /\ last.op = "GetRecommendedGateway"
    /\ last.err = <<>>
    /\ \E m \in GrantedTo(pmRegistry, last.key) :
           /\ m \notin DOMAIN gateways
           /\ GetGatewayPriority(registries[pmRegistry], m)
                  < GetGatewayPriority(registries[pmRegistry], last.method)

\* C7: each of InitiatePayment, VerifyPayment, RefundPayment and GetStatus on
\* method m fails with 'gateway m not registered' and invokes nothing when m has
\* no live instance; otherwise it invokes the instance installed for m, once,
\* with that operation, and returns the instance's response and error unchanged.
C7_DispatchVerbatim ==
    last.op \in DispatchOps =>
        IF last.method \notin DOMAIN gateways
            THEN /\ last.err = <<"gateway " \o last.method \o " not registered">>
                 /\ last.ret = <<>>
                 /\ last.invoked = <<>>
            ELSE /\ Len(last.invoked) = 1
                 /\ last.invoked[1].g = gateways[last.method]
                 /\ last.invoked[1].op = last.op
                 /\ last.ret = last.invoked[1].ret
                 /\ last.err = last.invoked[1].err

\* C7 witness: the instance of the method declines a refund and its error
\* reaches the caller.
C7_Witness ==
    /\ last.op = "RefundPayment"
    /\ last.method \in DOMAIN gateways
    /\ last.ret = <<>>
    /\ last.err = <<"RefundPayment not supported by " \o gateways[last.method][1]>>

\* C8: RegisterGatewayWithConfig(m, cfg) with no factory for m returns the
\* no-factory error and changes neither the instance map nor the factory map;
\* with a factory for m it invokes that factory once and installs what the
\* factory returned as the instance of m, replacing a prior one and changing no
\* other method's instance.  RegisterFactory creates no instance.
C8_InstantiateFromConfig ==
    [][/\ last'.op = "RegisterGatewayWithConfig" =>
              IF last'.method \notin DOMAIN factories
                  THEN /\ last'.err = <<"no factory registered for method: "
                                            \o last'.method>>
                       /\ last'.built = <<>>
                       /\ gateways' = gateways
                       /\ factories' = factories
                  ELSE /\ last'.err = <<>>
                       /\ Len(last'.built) = 1
                       /\ last'.built[1].factory = factories[last'.method]
                       /\ last'.built[1].config = last'.key
                       /\ DOMAIN gateways' = DOMAIN gateways \cup {last'.method}
                       /\ gateways'[last'.method] = last'.built[1].made
                       /\ \A m \in DOMAIN gateways \ {last'.method} :
                              gateways'[m] = gateways[m]
                       /\ factories' = factories
       /\ last'.op = "RegisterFactory" => gateways' = gateways]_vars

\* C8 witness: a factory-built instance has replaced the caller's own instance
\* of the method while the other method keeps the caller's instance.
C8_Witness ==
    /\ last.op = "RegisterGatewayWithConfig"
    /\ last.err = <<>>
    /\ Cardinality(DOMAIN gateways) = 2
    /\ \E m \in DOMAIN gateways : gateways[m] \in PreBuilt
    /\ gateways[last.method] \notin PreBuilt

(***************************************************************************)
(* registry.go: GetRecommendations.                                        *)
(***************************************************************************)
\* the number of entries below which a region entry is recommended
RecommendTop == 5

\* GatewayRecommendation{...}
GatewayRecommendation(method, priority, scope, available, recommended) ==
    [Method |-> method, Priority |-> priority, Scope |-> scope,
     Available |-> available, Recommended |-> recommended]

\* a flag that counts the entry itself
RecommendedFlagInclusive(scope, emittedSoFar) ==
    CASE scope = "country" -> TRUE
      [] scope = "region" -> emittedSoFar <= RecommendTop
      [] scope = "global" -> FALSE

\* the Recommended field of an entry of the scope, appended when the slice
\* holds emittedSoFar entries
RecommendedFlag(scope, emittedSoFar) ==
    CASE scope = "country" -> TRUE
      [] scope = "region" -> emittedSoFar < RecommendTop
      [] scope = "global" -> FALSE

\* one "for method := range <scope map>" loop of GetRecommendations, the map
\* ranged over in the order `order`; st holds recommendations and seenMethods
RECURSIVE EmitScope(_, _, _, _, _)
\* a loop that does not consult seenMethods
EmitScopeUnseen(r, st, order, scope, i) ==
    IF i > Len(order) THEN st
    ELSE LET method == order[i]
         IN  EmitScope(r,
                 [recommendations |->
                      Append(st.recommendations,
                          GatewayRecommendation(method, RawPriority(r, method), scope,
                              TRUE, RecommendedFlag(scope, Len(st.recommendations)))),
                  seenMethods |-> st.seenMethods \cup {method}],
                 order, scope, i + 1)

EmitScope(r, st, order, scope, i) ==
    IF i > Len(order) THEN st
    ELSE LET method == order[i]
         IN  IF method \in st.seenMethods
                 THEN EmitScope(r, st, order, scope, i + 1)
                 ELSE EmitScope(r,
                          [recommendations |->
                               Append(st.recommendations,
                                   GatewayRecommendation(method, RawPriority(r, method),
                                       scope, TRUE,
                                       RecommendedFlag(scope, Len(st.recommendations)))),
                           seenMethods |-> st.seenMethods \cup {method}],
                          order, scope, i + 1)

\* the inner loop of sortRecommendations
RECURSIVE SortRecInner(_, _, _)
SortRecInner(recs, j, limit) ==
    IF j >= limit THEN recs
    ELSE LET a == recs[j + 1]
             b == recs[j + 2]
         IN  IF a.Priority > b.Priority
                 THEN SortRecInner([recs EXCEPT ![j + 1] = b, ![j + 2] = a], j + 1, limit)
                 ELSE SortRecInner(recs, j + 1, limit)

RECURSIVE SortRecOuter(_, _)
SortRecOuter(recs, i) ==
    IF i >= Len(recs) - 1 THEN recs
    ELSE SortRecOuter(SortRecInner(recs, 0, Len(recs) - i - 1), i + 1)

\* a return that leaves the slice in the order of appending
sortRecommendationsLeftAsIs(recs) == recs

sortRecommendations(recs) == SortRecOuter(recs, 0)

\* the country, region and global maps GetRecommendations ranges over
CountryScopeOf(r, country) ==
    IF country \in DOMAIN r.countryGateways THEN r.countryGateways[country] ELSE {}
RegionScopeOf(r, country) ==
    IF GetRegion(country) \in DOMAIN r.regionGateways
        THEN r.regionGateways[GetRegion(country)] ELSE {}

\* GetRecommendations when the three maps are ranged over in the orders co, ro
\* and go: the slice returned, and the methods of its region entries in the
\* order the region loop appended them
GetRecommendationsFrom(r, co, ro, go) ==
    LET st0 == [recommendations |-> <<>>, seenMethods |-> {}]
        st1 == EmitScope(r, st0, co, "country", 1)
        st2 == EmitScope(r, st1, ro, "region", 1)
        st3 == EmitScope(r, st2, go, "global", 1)
    IN  [emitted |-> [i \in 1..(Len(st2.recommendations) - Len(st1.recommendations)) |->
                          st2.recommendations[Len(st1.recommendations) + i].Method],
         sorted |-> sortRecommendations(st3.recommendations)]

\* every value GetRecommendations(country) can return
GetRecommendations(r, country) ==
    {GetRecommendationsFrom(r, co, ro, go) :
        co \in RangeOrders(CountryScopeOf(r, country)),
        ro \in RangeOrders(RegionScopeOf(r, country)),
        go \in RangeOrders(r.globalGateways)}

(***************************************************************************)
(* manager.go: GetGatewayRecommendations.                                  *)
(***************************************************************************)
\* a loop that leaves the registry's Available flag
OverwriteAvailableKept(recommendations) == recommendations

\* the loop that sets each entry's Available to "configured"
OverwriteAvailable(recommendations) ==
    [i \in DOMAIN recommendations |->
        [recommendations[i] EXCEPT
            !.Available = recommendations[i].Method \in DOMAIN gateways]]

CallGetRecommendations(rid, country) ==
    /\ Ready
    /\ \E res \in GetRecommendations(registries[rid], country) :
           last' = [NoCall EXCEPT !.op = "GetRecommendations", !.rid = rid,
                                  !.key = country, !.ret = res.sorted,
                                  !.emitted = res.emitted]
    /\ UNCHANGED <<mu, threads, registries, granted, gateways, factories, pmRegistry>>

CallGetGatewayRecommendations(country) ==
    /\ Ready
    /\ \E res \in GetRecommendations(registries[pmRegistry], country) :
           last' = [NoCall EXCEPT !.op = "GetGatewayRecommendations",
                                  !.rid = pmRegistry, !.key = country,
                                  !.ret = OverwriteAvailable(res.sorted),
                                  !.inner = res.sorted]
    /\ UNCHANGED <<mu, threads, registries, granted, gateways, factories, pmRegistry>>

(***************************************************************************)
(* The registry's specification: registrations and reads of one registry.  *)
(***************************************************************************)
RegGetRecommendations ==
    \E c \in Countries : CallGetRecommendations(OwnRegistry, c)

NextRegistry ==
    \/ RegRegisterGlobal
    \/ RegRegisterRegion
    \/ RegRegisterCountry
    \/ RegIsGatewayAvailable
    \/ RegGetAvailableGateways
    \/ RegGetRecommendations
    \/ Return

SpecRegistry == Init /\ [][NextRegistry]_vars

(***************************************************************************)
(* Recommendations on their own: a registry set up by registrations for    *)
(* one country, its region and the global scope, and a manager with some   *)
(* instances; the calls are the two recommendation reads.                  *)
(***************************************************************************)
\* the methods registered for the country, in the order the setup registers
\* them; the first MaxCountryScope of them at most are registered
RecCountryMethods ==
    <<"esewa", "khalti", "imepay", "connectips", "fonepay", "prabhupay">>
\* the methods registered for the region and globally; some are shared
RecRegionMethods == {"esewa", "razorpay", "paytm"}
RecGlobalMethods == {"esewa", "stripe"}
RecMethods == Range(RecCountryMethods) \cup RecRegionMethods \cup RecGlobalMethods
\* the country registered for, and the countries asked about: that one and
\* another of its region
RecCountry == "NP"
RecCountries == {"NP", "IN"}
\* the place of a country method in RecCountryMethods
CountryRank(method) == CHOOSE i \in DOMAIN RecCountryMethods : RecCountryMethods[i] = method
\* how the setup hands out priorities: the lower numbers to the local methods,
\* the lower numbers to the global methods, or numbers shared between scopes
RecPlans == {"localFirst", "globalFirst", "shared"}
PlanPriority(plan, method) ==
    CASE plan = "localFirst" ->
            IF method \in Range(RecCountryMethods) THEN CountryRank(method)
            ELSE IF method \in RecRegionMethods THEN 8 ELSE 9
      [] plan = "globalFirst" ->
            IF method = "stripe" THEN 1
            ELSE IF method = "razorpay" THEN 2
            ELSE IF method = "paytm" THEN 3
            ELSE 3 + CountryRank(method)
      [] plan = "shared" ->
            IF method \in Range(RecCountryMethods) THEN CountryRank(method)
            ELSE IF method \in RecRegionMethods THEN 2 ELSE 1
\* the instance map of the manager
RecInstalled ==
    ("esewa" :> <<"caller", "spy">>) @@ ("stripe" :> <<"caller", "mock">>)

\* the registration calls of a setup, made one after another
RECURSIVE RegisterEach(_, _, _, _, _)
RegisterEach(r, scope, key, methods, plan) ==
    IF methods = {} THEN r
    ELSE LET method == CHOOSE m \in methods : TRUE
             p == PlanPriority(plan, method)
             next == CASE scope = "country" -> DoRegisterCountry(r, key, method, p)
                       [] scope = "region" -> DoRegisterRegion(r, key, method, p)
                       [] scope = "global" -> DoRegisterGlobal(r, method, p)
         IN  RegisterEach(next, scope, key, methods \ {method}, plan)

RecSetup(cs, rs, gs, plan) ==
    LET r1 == RegisterEach(NewGatewayRegistry, "country", RecCountry, cs, plan)
        r2 == RegisterEach(r1, "region", GetRegion(RecCountry), rs, plan)
    IN  RegisterEach(r2, "global", "", gs, plan)

RecGrants(cs, rs, gs) ==
    {CountryGrant(RecCountry, m) : m \in cs}
        \cup {RegionGrant(GetRegion(RecCountry), m) : m \in rs}
        \cup {GlobalGrant(m) : m \in gs}

InitRecommend ==
    \E k \in 0..MaxCountryScope, rs \in SUBSET RecRegionMethods,
       gs \in SUBSET RecGlobalMethods, plan \in RecPlans :
        LET cs == {RecCountryMethods[i] : i \in 1..k}
        IN  /\ registries = [rid \in RegistryIds |->
                                IF rid = OwnRegistry THEN RecSetup(cs, rs, gs, plan)
                                                     ELSE NewGatewayRegistry]
            /\ granted = [rid \in RegistryIds |->
                             IF rid = OwnRegistry THEN RecGrants(cs, rs, gs) ELSE {}]
            /\ gateways = RecInstalled
            /\ factories = <<>>
            /\ pmRegistry = OwnRegistry
            /\ last = NoCall
            /\ mu = Unlocked
            /\ threads = NoGoroutines

RecGetRecommendations ==
    \E c \in RecCountries : CallGetRecommendations(OwnRegistry, c)

RecGetGatewayRecommendations ==
    \E c \in RecCountries : CallGetGatewayRecommendations(c)

NextRecommend ==
    \/ RecGetRecommendations
    \/ RecGetGatewayRecommendations
    \/ Return

SpecRecommend == InitRecommend /\ [][NextRecommend]_vars

(***************************************************************************)
(* The recommendations' properties.                                        *)
(***************************************************************************)
\* the grants made so far that apply to a country
AppliedGrants(rid, country) ==
    {g \in granted[rid] :
        \/ g[1] = "global"
        \/ g[1] = "region" /\ g[2] = GetRegion(country)
        \/ g[1] = "country" /\ g[2] = country}
\* country before region before global
ScopeRank(scope) ==
    CASE scope = "country" -> 1 [] scope = "region" -> 2 [] scope = "global" -> 3
\* the most specific scope among the grants of a method that apply to a country
NarrowestScope(rid, country, method) ==
    IF CountryGrant(country, method) \in granted[rid] THEN "country"
    ELSE IF RegionGrant(GetRegion(country), method) \in granted[rid] THEN "region"
    ELSE "global"

\* C11: in the sequence GetRecommendations(c) returns no region or global entry
\* precedes a country entry and no global entry precedes a region entry, and
\* when a method is registered for c the first entry has scope "country".
C11_ScopeOrder ==
    last.op = "GetRecommendations" =>
        /\ \A i, j \in DOMAIN last.ret :
               i < j => ScopeRank(last.ret[i].Scope) <= ScopeRank(last.ret[j].Scope)
        /\ (\E g \in granted[last.rid] : g[1] = "country" /\ g[2] = last.key)
               => /\ Len(last.ret) > 0
                  /\ last.ret[1].Scope = "country"

\* C12 as stated: GetRecommendations(c) holds one entry per (scope, method)
\* grant that applies to c, so a method granted to c in two scopes appears
\* twice, under each of the two scopes.
C12_OncePerGrantingScope ==
    last.op = "GetRecommendations" =>
        /\ Len(last.ret) = Cardinality(AppliedGrants(last.rid, last.key))
        /\ \A g \in AppliedGrants(last.rid, last.key) :
               \E i \in DOMAIN last.ret :
                   last.ret[i].Method = g[3] /\ last.ret[i].Scope = g[1]

\* C12 amended: GetRecommendations(c) holds each method granted to c exactly
\* once, under the most specific scope that grants it to c (country, else
\* region, else global); the number of entries is the number of distinct
\* methods granted to c.
C12_OncePerMethod ==
    last.op = "GetRecommendations" =>
        LET methods == {g[3] : g \in AppliedGrants(last.rid, last.key)}
        IN  /\ Len(last.ret) = Cardinality(methods)
            /\ {last.ret[i].Method : i \in DOMAIN last.ret} = methods
            /\ \A i, j \in DOMAIN last.ret :
                   i # j => last.ret[i].Method # last.ret[j].Method
            /\ \A i \in DOMAIN last.ret :
                   last.ret[i].Scope
                       = NarrowestScope(last.rid, last.key, last.ret[i].Method)

\* C12 witness: esewa is registered for NP and globally, and the
\* recommendations for NP hold it once, as a country entry, beside another method.
C12_Witness ==
    /\ last.op = "GetRecommendations"
    /\ last.key = "NP"
    /\ {CountryGrant("NP", "esewa"), GlobalGrant("esewa")} \subseteq granted[last.rid]
    /\ Len(last.ret) = 2
    /\ \E i \in DOMAIN last.ret :
           last.ret[i].Method = "esewa" /\ last.ret[i].Scope = "country"

\* C13: an entry of GetRecommendations(c) has Recommended true when its scope is
\* country and false when it is global; a region entry has it true exactly when
\* fewer than 5 entries were appended before it: the country entries and the
\* region entries appended earlier.
C13_RecommendedFlag ==
    last.op = "GetRecommendations" =>
        LET countryEntries == {i \in DOMAIN last.ret : last.ret[i].Scope = "country"}
            regionEntries == {i \in DOMAIN last.ret : last.ret[i].Scope = "region"}
        IN  /\ Len(last.emitted) = Cardinality(regionEntries)
            /\ {last.ret[i].Method : i \in regionEntries} = Range(last.emitted)
            /\ \A i \in DOMAIN last.ret :
                   CASE last.ret[i].Scope = "country" -> last.ret[i].Recommended = TRUE
                     [] last.ret[i].Scope = "global" -> last.ret[i].Recommended = FALSE
                     [] last.ret[i].Scope = "region" ->
                            \A k \in DOMAIN last.emitted :
                                last.emitted[k] = last.ret[i].Method =>
                                    last.ret[i].Recommended
                                        = (Cardinality(countryEntries) + k - 1 < 5)

\* C13 witness: four country entries, then a region entry that is recommended
\* and a later region entry that is not.
C13_Witness ==
    /\ last.op = "GetRecommendations"
    /\ Cardinality({i \in DOMAIN last.ret : last.ret[i].Scope = "country"}) = 4
    /\ \E i, j \in DOMAIN last.ret :
           /\ last.ret[i].Scope = "region" /\ last.ret[i].Recommended
           /\ last.ret[j].Scope = "region" /\ ~last.ret[j].Recommended

\* C14: GetGatewayRecommendations(c) returns the entries the registry's
\* GetRecommendations(c) returned, in the same order and with the same Method,
\* Priority, Scope and Recommended, and Available true exactly for the methods
\* that have a live instance in the manager.
C14_AvailableIsConfigured ==
    last.op = "GetGatewayRecommendations" =>
        /\ Len(last.ret) = Len(last.inner)
        /\ \A i \in DOMAIN last.ret :
               /\ last.ret[i].Method = last.inner[i].Method
               /\ last.ret[i].Priority = last.inner[i].Priority
               /\ last.ret[i].Scope = last.inner[i].Scope
               /\ last.ret[i].Recommended = last.inner[i].Recommended
               /\ last.ret[i].Available = (last.ret[i].Method \in DOMAIN gateways)
        /\ \A i \in DOMAIN last.inner : last.inner[i].Available = TRUE
        /\ {last.inner[i].Method : i \in DOMAIN last.inner}
               = {g[3] : g \in AppliedGrants(pmRegistry, last.key)}

\* C14 witness: the recommendations hold a method with a live instance and a
\* method without one.
C14_Witness ==
    /\ last.op = "GetGatewayRecommendations"
    /\ \E i, j \in DOMAIN last.ret :
           /\ last.ret[i].Available /\ last.ret[i].Method \in DOMAIN gateways
           /\ ~last.ret[j].Available /\ last.ret[j].Method \notin DOMAIN gateways

(***************************************************************************)
(* Priorities on their own: registrations of two methods in every scope    *)
(* and the reads of a priority, of a country's list, of its                *)
(* recommendations and of a pair's eligibility.                            *)
(***************************************************************************)
PrMethods == {"esewa", "khalti"}
PrCountries == {"NP", "XX"}

PrRegisterGlobal ==
    \E m \in PrMethods, p \in Priorities :
        /\ RoomFor(OwnRegistry, GlobalGrant(m))
        /\ RegisterGlobalGateway(OwnRegistry, m, p)

PrRegisterRegion ==
    \E reg \in Regions, m \in PrMethods, p \in Priorities :
        /\ RoomFor(OwnRegistry, RegionGrant(reg, m))
        /\ RegisterRegionGateway(OwnRegistry, reg, m, p)

PrRegisterCountry ==
    \E c \in PrCountries, m \in PrMethods, p \in Priorities :
        /\ RoomFor(OwnRegistry, CountryGrant(c, m))
        /\ RegisterCountryGateway(OwnRegistry, c, m, p)

PrGetGatewayPriority ==
    \E m \in Methods : CallGetGatewayPriority(OwnRegistry, m)

PrGetAvailableGateways ==
    \E c \in PrCountries : CallGetAvailableGateways(OwnRegistry, c)

PrIsGatewayAvailable ==
    \E c \in PrCountries, m \in PrMethods : CallIsGatewayAvailable(OwnRegistry, c, m)

PrGetRecommendations ==
    \E c \in PrCountries : CallGetRecommendations(OwnRegistry, c)

NextPriority ==
    \/ PrRegisterGlobal
    \/ PrRegisterRegion
    \/ PrRegisterCountry
    \/ PrGetGatewayPriority
    \/ PrGetAvailableGateways
    \/ PrIsGatewayAvailable
    \/ PrGetRecommendations
    \/ Return

SpecPriority == Init /\ [][NextPriority]_vars

(***************************************************************************)
(* The properties of priorities and of repeated registrations.             *)
(***************************************************************************)
RegistrationOps ==
    {"RegisterGlobalGateway", "RegisterRegionGateway", "RegisterCountryGateway"}

\* C15: GetGatewayPriority(m) returns 999 when m was never registered; a
\* registration of m with priority p, in any scope, makes it p and leaves the
\* priority of every other method alone, and no other call changes a priority
\* (so the value is that of the most recent registration of m); after the
\* registration m stands, in GetAvailableGateways of every country that lists
\* it, where p places it.
C15_LastRegistrationWins ==
    [][/\ last'.op = "GetGatewayPriority" =>
              /\ (\A g \in granted[last'.rid] : g[3] # last'.method) => last'.ret = 999
              /\ (\E g \in granted[last'.rid] : g[3] = last'.method)
                     => last'.ret = registries[last'.rid].gatewayPriority[last'.method]
       /\ \A rid \in RegistryIds, m \in Methods :
              IF last'.op \in RegistrationOps /\ last'.rid = rid /\ last'.method = m
                  THEN GetGatewayPriority(registries'[rid], m) = last'.priority
                  ELSE GetGatewayPriority(registries'[rid], m)
                           = GetGatewayPriority(registries[rid], m)
       /\ last'.op \in RegistrationOps =>
              \A c \in Countries :
                  \A list \in GetAvailableGateways(registries'[last'.rid], c) :
                      \A i, j \in DOMAIN list :
                          /\ (i < j /\ list[j] = last'.method) =>
                                 GetGatewayPriority(registries'[last'.rid], list[i])
                                     <= last'.priority
                          /\ (i < j /\ list[i] = last'.method) =>
                                 last'.priority
                                     <= GetGatewayPriority(registries'[last'.rid], list[j])
      ]_vars

\* C15 witness: a method registered for a country has been registered anew,
\* globally, with priority 1, and now comes first for a country of another
\* region as well, before a method of priority 2.
C15_Witness ==
    /\ last.op = "RegisterGlobalGateway"
    /\ last.priority = 1
    /\ ~last.repeat
    /\ GlobalGrant(last.method) \in granted[last.rid]
    /\ CountryGrant("NP", last.method) \in granted[last.rid]
    /\ \E other \in Methods \ {last.method} :
           /\ GlobalGrant(other) \in granted[last.rid]
           /\ GetGatewayPriority(registries[last.rid], other) = 2
           /\ \A c \in {"NP", "XX"} :
                  \A list \in GetAvailableGateways(registries[last.rid], c) :
                      list = <<last.method, other>>

\* C16: a registration with the scope, key, method and priority of an earlier
\* registration, the method's priority being still that one, leaves the
\* registry as it was: GetAvailableGateways of every country, IsGatewayAvailable
\* and GetGatewayPriority of every method are what they were.
C16_RegistrationIdempotent ==
    [][(last'.op \in RegistrationOps /\ last'.repeat)
       => /\ registries' = registries
          /\ granted' = granted
          /\ \A c \in Countries :
                 /\ GetAvailableGateways(registries'[last'.rid], c)
                        = GetAvailableGateways(registries[last'.rid], c)
                 /\ \A m \in Methods :
                        IsGatewayAvailable(registries'[last'.rid], c, m)
                            = IsGatewayAvailable(registries[last'.rid], c, m)
          /\ \A m \in Methods :
                 GetGatewayPriority(registries'[last'.rid], m)
                     = GetGatewayPriority(registries[last'.rid], m)
      ]_vars

\* C16 witness: a country registration is repeated with the same priority in a
\* registry where the country has another method as well.
C16_Witness ==
    /\ last.op = "RegisterCountryGateway"
    /\ last.repeat
    /\ Cardinality(registries[last.rid].countryGateways[last.key]) = 2

(***************************************************************************)
(* The properties of dispatch: what it leaves alone and what it returns.   *)
(***************************************************************************)
\* the operations that end in a call on a gateway instance
AllDispatchOps ==
    DispatchOps \cup {"InitiatePaymentForCountry", "InitiatePaymentWithMethod"}

\* C19: a call of InitiatePayment, VerifyPayment, RefundPayment, GetStatus,
\* InitiatePaymentForCountry or InitiatePaymentWithMethod, whatever it returns,
\* leaves the instance map, the factory map, the registry reference and the
\* maps of every registry as they were.
C19_DispatchChangesNothing ==
    [][last'.op \in AllDispatchOps
       => /\ gateways' = gateways
          /\ factories' = factories
          /\ pmRegistry' = pmRegistry
          /\ registries' = registries
          /\ granted' = granted]_vars

\* C19 witness: an instance has failed the operation dispatched to it, and both
\* methods still have their instances and the registry its grants.
C19_Witness ==
    /\ last.op \in AllDispatchOps
    /\ Len(last.invoked) = 1
    /\ last.err # <<>>
    /\ DOMAIN gateways = MgrMethods
    /\ granted[pmRegistry] # {}

\* C20 as stated: when the instance returns an error, the error the manager
\* returns is that error with a message naming the method put in front of it.
C20_ErrorNamesMethod ==
    (/\ last.op \in AllDispatchOps
     /\ Len(last.invoked) = 1
     /\ last.invoked[1].err # <<>>)
    => /\ Len(last.err) = Len(last.invoked[1].err) + 1
       /\ SubSeq(last.err, 2, Len(last.err)) = last.invoked[1].err

\* C20 amended: when the instance returns an error, the manager returns that
\* error as it is, with nothing attached; the manager names the method only in
\* the errors it makes itself (not registered, not available, not configured).
C20_InstanceErrorUnchanged ==
    last.op \in AllDispatchOps =>
        IF Len(last.invoked) = 1
            THEN /\ last.err = last.invoked[1].err
                 /\ last.ret = last.invoked[1].ret
            ELSE /\ last.invoked = <<>>
                 /\ last.ret = <<>>
                 /\ last.err[1] \in
                        {"gateway " \o m \o " not registered" : m \in MgrMethods}
                        \cup {"gateway " \o m \o " is not available for country " \o c :
                                 m \in MgrMethods, c \in MgrCountries}
                        \cup {"gateway " \o m \o " is available but not configured: "
                                 \o "gateway " \o m \o " not registered" : m \in MgrMethods}
                        \cup {"no gateways available for country " \o c : c \in MgrCountries}

\* C20 witness: the instance recommended for a country has failed the payment,
\* and what the manager returned is the instance's error.
C20_Witness ==
    /\ last.op = "InitiatePaymentForCountry"
    /\ Len(last.invoked) = 1
    /\ last.invoked[1].err # <<>>
    /\ last.err = last.invoked[1].err

(***************************************************************************)
(* The gateways of the repository (gateways/esewa, khalti, imepay,         *)
(* connectips) and the context each operation gives to its HTTP request.   *)
(* A context is its name and whether it has been cancelled; a request made *)
(* with a cancelled context fails with the context's error.                *)
(***************************************************************************)
\* context.Background(): never cancelled
ContextBackground == [name |-> "background", done |-> FALSE]
\* the contexts a caller passes: one still live, one it has cancelled
CallerContexts == {[name |-> "caller", done |-> FALSE], [name |-> "caller", done |-> TRUE]}

\* the factories SetupPaymentManager registers for the Nepal gateways
BuiltinFactories ==
    ("esewa" :> "esewa.New") @@ ("khalti" :> "khalti.New")
        @@ ("imepay" :> "imepay.New") @@ ("connectips" :> "connectips.New")

\* http.NewRequestWithContext(ctx, ...) then client.Do: the operation's answer
\* and the request it made
HttpOperation(g, op, ctx) ==
    IF ctx.done
        THEN [ret |-> <<>>, err |-> <<"context canceled">>, requests |-> <<ctx>>]
        ELSE [ret |-> <<[from |-> g, op |-> op]>>, err |-> <<>>, requests |-> <<ctx>>]

\* an operation that answers without a request
LocalOperation(g, op) ==
    [ret |-> <<[from |-> g, op |-> op]>>, err |-> <<>>, requests |-> <<>>]

\* return nil, errors.New(message)
DeclinedOperation(message) ==
    [ret |-> <<>>, err |-> <<message>>, requests |-> <<>>]

\* GetStatus of Khalti and ConnectIPS, given what their VerifyPayment returned
StatusByVerify(g, verified) ==
    IF verified.err # <<>>
        THEN [ret |-> <<>>, err |-> verified.err, requests |-> verified.requests]
        ELSE [ret |-> <<[from |-> g, op |-> "GetStatus"]>>, err |-> <<>>,
              requests |-> verified.requests]

EsewaOperation(g, op, ctx) ==
    CASE op = "InitiatePayment" -> LocalOperation(g, op)
      [] op = "VerifyPayment" -> HttpOperation(g, op, ctx)
      [] op = "RefundPayment" -> DeclinedOperation("refund not supported by eSewa API")
      [] op = "GetStatus" -> DeclinedOperation("status check requires order details")

KhaltiOperation(g, op, ctx) ==
    CASE op = "InitiatePayment" -> HttpOperation(g, op, ctx)
      [] op = "VerifyPayment" -> HttpOperation(g, op, ctx)
      [] op = "RefundPayment" -> DeclinedOperation("refund not implemented for Khalti")
      [] op = "GetStatus" ->
            StatusByVerify(g, HttpOperation(g, "VerifyPayment", ContextBackground))

ImepayOperation(g, op, ctx) ==
    CASE op = "InitiatePayment" -> LocalOperation(g, op)
      [] op = "VerifyPayment" -> HttpOperation(g, op, ctx)
      [] op = "RefundPayment" -> DeclinedOperation("refund not implemented for IMEPay")
      [] op = "GetStatus" ->
            DeclinedOperation("status check requires additional data for IMEPay")

ConnectipsOperation(g, op, ctx) ==
    CASE op = "InitiatePayment" -> HttpOperation(g, op, ctx)
      [] op = "VerifyPayment" -> HttpOperation(g, op, ctx)
      [] op = "RefundPayment" -> DeclinedOperation("refund not implemented for ConnectIPS")
      [] op = "GetStatus" ->
            StatusByVerify(g, HttpOperation(g, "VerifyPayment", ContextBackground))

\* g.<op>(ctx, ...) on an instance a built-in factory made
GatewayOperation(g, op, ctx) ==
    CASE g[1] = "esewa.New" -> EsewaOperation(g, op, ctx)
      [] g[1] = "khalti.New" -> KhaltiOperation(g, op, ctx)
      [] g[1] = "imepay.New" -> ImepayOperation(g, op, ctx)
      [] g[1] = "connectips.New" -> ConnectipsOperation(g, op, ctx)

\* a dispatch operation of the manager with the caller's context:
\* GetGateway(method), then gateway.<op>(ctx, ...)
ForwardWithContext(op, method, ctx) ==
    LET got == GetGateway(method)
    IN  IF got.err # <<>>
            THEN [ret |-> <<>>, err |-> got.err, invoked |-> <<>>, requests |-> <<>>]
            ELSE LET ans == GatewayOperation(got.g[1], op, ctx)
                 IN  [ret |-> ans.ret, err |-> ans.err,
                      invoked |-> <<[g |-> got.g[1], op |-> op,
                                     ret |-> ans.ret, err |-> ans.err]>>,
                      requests |-> ans.requests]

CallDispatchWithContext(op, method, ctx) ==
    /\ Ready
    /\ LET res == ForwardWithContext(op, method, ctx)
       IN  last' = [NoCall EXCEPT !.op = op, !.method = method, !.ret = res.ret,
                                  !.err = res.err, !.invoked = res.invoked,
                                  !.ctx = <<ctx>>, !.requests = res.requests]
    /\ UNCHANGED <<mu, threads, registries, granted, gateways, factories, pmRegistry>>

(***************************************************************************)
(* The built-in gateways behind the manager: SetupPaymentManager has       *)
(* registered the factories; instances are made from configurations and    *)
(* operations dispatched with a context.                                   *)
(***************************************************************************)
InitContext ==
    /\ registries = [rid \in RegistryIds |-> NewGatewayRegistry]
    /\ granted = [rid \in RegistryIds |-> {}]
    /\ gateways = <<>>
    /\ factories = BuiltinFactories
    /\ pmRegistry = OwnRegistry
    /\ last = NoCall
    /\ mu = Unlocked
    /\ threads = NoGoroutines

CtxRegisterGatewayWithConfig ==
    \E m \in DOMAIN BuiltinFactories, cfg \in Configs : RegisterGatewayWithConfig(m, cfg)

CtxDispatch ==
    \E op \in DispatchOps, m \in DOMAIN BuiltinFactories, ctx \in CallerContexts :
        CallDispatchWithContext(op, m, ctx)

NextContext ==
    \/ CtxRegisterGatewayWithConfig
    \/ CtxDispatch
    \/ Return

SpecContext == InitContext /\ [][NextContext]_vars

\* C18: a dispatched operation that makes an HTTP request makes it with the
\* context the caller passed, so a request of a caller whose context is
\* cancelled fails with the context's error; GetStatus of Khalti and of
\* ConnectIPS, which goes through VerifyPayment, included.
C18_ContextPropagated ==
    (last.op \in DispatchOps /\ Len(last.invoked) = 1)
    => /\ \A i \in DOMAIN last.requests : last.requests[i] = last.ctx[1]
       /\ (last.requests # <<>> /\ last.ctx[1].done)
              => last.err = <<"context canceled">>


(***************************************************************************)
(* Concurrent callers.  A goroutine inside a call is at one statement of   *)
(* the call's body (pc); a step executes that statement.  The statements   *)
(* are the lock operations and the reads and writes of the manager's and   *)
(* the registries' fields, in the order of the source; a deferred unlock   *)
(* is the last statement of the function that deferred it.  After a        *)
(* failed statement (err set) the call returns: the statements left are    *)
(* passed over, except the deferred unlocks of locks the goroutine holds.  *)
(***************************************************************************)
ConcMethod == "esewa"
ConcCountry == "NP"
ConcGateway == <<"caller", "spy">>
ConcFactory == "esewa.New"
ConcConfig == "sandbox"
ConcPriority == 1

\* a lookup that returns with pm.mu still read-locked
GetGatewayBodyUnreleased == <<"RLock", "ReadGateways">>

\* pm.GetGateway(method)
GetGatewayBody == <<"RLock", "ReadGateways", "RUnlock">>
\* pm.registry.ValidateGatewayForCountry(country, method), which calls
\* r.IsGatewayAvailable
ValidateBody == <<"ReadRegistry", "RegRLock", "RegValidate", "RegRUnlock">>

\* r.Register<Scope>Gateway: the scope's map, then the priority map
RegisterBody == <<"RegLock", "RegWrite", "RegWritePriority", "RegUnlock">>

\* a body that reads the registry through pm.GetRegistry(), which read-locks
\* pm.mu again
GetAvailableBodyRecursive ==
    <<"RLock", "RLock", "ReadRegistry", "RUnlock", "RegRLock", "RegGetAvailable",
      "RegRUnlock", "FilterConfigured", "RUnlock">>

\* pm.GetAvailableGatewaysForCountry(country)
GetAvailableBody ==
    <<"RLock", "ReadRegistry", "RegRLock", "RegGetAvailable", "RegRUnlock",
      "FilterConfigured", "RUnlock">>

\* the statements of each call, in order
Program ==
    [SetRegistry |-> <<"Lock", "WriteRegistry", "Unlock">>,
     GetRegistry |-> <<"RLock", "ReadRegistry", "RUnlock">>,
     RegisterFactory |-> <<"Lock", "WriteFactories", "Unlock">>,
     RegisterGateway |-> <<"Lock", "WriteGateways", "Unlock">>,
     RegisterGatewayWithConfig |-> <<"Lock", "ReadFactories", "WriteGateways", "Unlock">>,
     InitiatePayment |-> GetGatewayBody \o <<"CallInstance">>,
     VerifyPayment |-> GetGatewayBody \o <<"CallInstance">>,
     RefundPayment |-> GetGatewayBody \o <<"CallInstance">>,
     GetStatus |-> GetGatewayBody \o <<"CallInstance">>,
     GetAvailableGatewaysForCountry |-> GetAvailableBody,
     InitiatePaymentForCountry |->
        GetAvailableBody \o <<"TakeFirst">> \o GetGatewayBody \o <<"CallInstance">>,
     GetGatewayRecommendations |->
        <<"RLock", "ReadRegistry", "RegRLock", "RegGetRecommendations", "RegRUnlock",
          "MarkConfigured", "RUnlock">>,
     IsGatewayAvailable |->
        <<"ReadRegistry", "RegRLock", "RegIsAvailable", "RegRUnlock">>,
     ValidateGatewayForCountry |->
        ValidateBody \o <<"RLock", "CheckConfigured", "RUnlock">>,
     InitiatePaymentWithMethod |->
        ValidateBody \o <<"RLock", "ReadGatewaysConfigured", "RUnlock">>
            \o GetGatewayBody \o <<"CallInstance">>,
     RegisterGlobalGateway |-> RegisterBody,
     RegisterRegionGateway |-> RegisterBody,
     RegisterCountryGateway |-> RegisterBody,
     RegistryIsGatewayAvailable |-> <<"RegRLock", "RegIsAvailable", "RegRUnlock">>,
     RegistryGetAvailableGateways |-> <<"RegRLock", "RegGetAvailable", "RegRUnlock">>]

\* the calls made on a registry itself
RegistryOps ==
    {"RegisterGlobalGateway", "RegisterRegionGateway", "RegisterCountryGateway",
     "RegistryIsGatewayAvailable", "RegistryGetAvailableGateways"}

\* the registry argument of a call: SetRegistry is given either registry, and
\* registrations are made on the caller's registry
RegistryArguments(op) ==
    CASE op = "SetRegistry" -> RegistryIds
      [] op \in RegistryOps -> {CallerRegistry}
      [] OTHER -> {""}

\* the statement goroutine t is at ("" outside a call and after the last one)
At(t) ==
    IF threads[t].op # "" /\ threads[t].pc \in DOMAIN Program[threads[t].op]
        THEN Program[threads[t].op][threads[t].pc]
        ELSE ""

Releases == {"Unlock", "RUnlock", "RegUnlock", "RegRUnlock"}

\* goroutine t executes statement stmt next
Runs(t, stmt) ==
    /\ At(t) = stmt
    /\ stmt \in Releases \/ threads[t].err = <<>>

Holds(t, l) == t \in mu[l].writer \cup mu[l].readers

Advance(t, fields) ==
    threads' = [threads EXCEPT ![t] = [fields EXCEPT !.pc = threads[t].pc + 1]]

\* a Lock that returns without taking the mutex
DoLockNotTaken(t, l) ==
    mu' = mu

\* sync.RWMutex: Lock returns when no goroutine holds the mutex; a Lock that
\* has been called and has not returned (pending) keeps every later RLock
\* waiting
DoLock(t, l) ==
    /\ mu[l].writer = {} /\ mu[l].readers = {}
    /\ mu' = [mu EXCEPT ![l].writer = {t}, ![l].pending = @ \ {t}]
DoLockWait(t, l) ==
    /\ mu[l].writer # {} \/ mu[l].readers # {}
    /\ t \notin mu[l].pending
    /\ mu' = [mu EXCEPT ![l].pending = @ \cup {t}]
DoRLock(t, l) ==
    /\ mu[l].writer = {} /\ mu[l].pending = {}
    /\ mu' = [mu EXCEPT ![l].readers = @ \cup {t}]
DoRelease(t, l) ==
    mu' = [mu EXCEPT ![l].writer = @ \ {t}, ![l].readers = @ \ {t}]

\* a call begins: the goroutine has the arguments and stands before the first
\* statement
Begin(t, op, rid) ==
    /\ threads[t] = Idle
    /\ threads' = [threads EXCEPT ![t] =
            [Idle EXCEPT !.op = op, !.pc = 1, !.rid = rid,
                         !.country = ConcCountry,
                         !.method = IF op = "InitiatePaymentForCountry"
                                        THEN "" ELSE ConcMethod,
                         !.reg = IF op \in RegistryOps THEN rid ELSE "",
                         !.g = IF op = "RegisterGateway" THEN <<ConcGateway>> ELSE <<>>]]
    /\ UNCHANGED <<registries, granted, gateways, factories, pmRegistry, last, mu>>

\* pm.mu.Lock()
StmtLock(t) ==
    /\ Runs(t, "Lock")
    /\ \/ DoLock(t, ManagerLock) /\ Advance(t, threads[t])
       \/ DoLockWait(t, ManagerLock) /\ UNCHANGED threads
    /\ UNCHANGED <<registries, granted, gateways, factories, pmRegistry, last>>

\* pm.mu.RLock()
StmtRLock(t) ==
    /\ Runs(t, "RLock")
    /\ DoRLock(t, ManagerLock)
    /\ Advance(t, threads[t])
    /\ UNCHANGED <<registries, granted, gateways, factories, pmRegistry, last>>

\* defer pm.mu.Unlock() / defer pm.mu.RUnlock(), run when the function returns
StmtUnlock(t) ==
    /\ Runs(t, "Unlock") \/ Runs(t, "RUnlock")
    /\ DoRelease(t, ManagerLock)
    /\ Advance(t, threads[t])
    /\ UNCHANGED <<registries, granted, gateways, factories, pmRegistry, last>>

\* r.mu.Lock() of the registry the call is on
StmtRegLock(t) ==
    /\ Runs(t, "RegLock")
    /\ \/ DoLock(t, threads[t].reg) /\ Advance(t, threads[t])
       \/ DoLockWait(t, threads[t].reg) /\ UNCHANGED threads
    /\ UNCHANGED <<registries, granted, gateways, factories, pmRegistry, last>>

\* r.mu.RLock()
StmtRegRLock(t) ==
    /\ Runs(t, "RegRLock")
    /\ DoRLock(t, threads[t].reg)
    /\ Advance(t, threads[t])
    /\ UNCHANGED <<registries, granted, gateways, factories, pmRegistry, last>>

\* defer r.mu.Unlock() / defer r.mu.RUnlock()
StmtRegUnlock(t) ==
    /\ Runs(t, "RegUnlock") \/ Runs(t, "RegRUnlock")
    /\ DoRelease(t, threads[t].reg)
    /\ Advance(t, threads[t])
    /\ UNCHANGED <<registries, granted, gateways, factories, pmRegistry, last>>

\* another goroutine is at "pm.registry = registry"
RegistryWriters(t) == {w \in Goroutines \ {t} : At(w) = "WriteRegistry"}

\* what a read of pm.registry can give: the field's value, or, when the read
\* is not ordered with a write of another goroutine, also what that
\* goroutine is writing
RegistryRead(t) ==
    {pmRegistry} \cup
        (IF Holds(t, ManagerLock) THEN {} ELSE {threads[w].rid : w \in RegistryWriters(t)})

\* pm.registry (read)
StmtReadRegistry(t) ==
    /\ Runs(t, "ReadRegistry")
    /\ \E rid \in RegistryRead(t) : Advance(t, [threads[t] EXCEPT !.reg = rid])
    /\ UNCHANGED <<registries, granted, gateways, factories, pmRegistry, last, mu>>

\* pm.registry = registry
StmtWriteRegistry(t) ==
    /\ Runs(t, "WriteRegistry")
    /\ pmRegistry' = threads[t].rid
    /\ Advance(t, threads[t])
    /\ UNCHANGED <<registries, granted, gateways, factories, last, mu>>

\* pm.factories[method] = factory
StmtWriteFactories(t) ==
    /\ Runs(t, "WriteFactories")
    /\ factories' = MapSet(factories, threads[t].method, ConcFactory)
    /\ Advance(t, threads[t])
    /\ UNCHANGED <<registries, granted, gateways, pmRegistry, last, mu>>

\* a failed installation that also drops the instance the method had
StmtReadFactoriesEvicts(t) ==
    /\ Runs(t, "ReadFactories")
    /\ IF threads[t].method \in DOMAIN factories
           THEN /\ Advance(t, [threads[t] EXCEPT
                       !.g = <<CallFactory(factories[threads[t].method], ConcConfig)>>])
                /\ UNCHANGED gateways
           ELSE /\ Advance(t, [threads[t] EXCEPT !.err = NoFactoryError(threads[t].method)])
                /\ gateways' = [m \in DOMAIN gateways \ {threads[t].method} |-> gateways[m]]
    /\ UNCHANGED <<registries, granted, factories, pmRegistry, last, mu>>

\* factory, ok := pm.factories[method]; gateway := factory(config, pm.client)
StmtReadFactories(t) ==
    /\ Runs(t, "ReadFactories")
    /\ IF threads[t].method \in DOMAIN factories
           THEN Advance(t, [threads[t] EXCEPT
                    !.g = <<CallFactory(factories[threads[t].method], ConcConfig)>>])
           ELSE Advance(t, [threads[t] EXCEPT !.err = NoFactoryError(threads[t].method)])
    /\ UNCHANGED <<registries, granted, gateways, factories, pmRegistry, last, mu>>

\* pm.gateways[method] = gateway
StmtWriteGateways(t) ==
    /\ Runs(t, "WriteGateways")
    /\ gateways' = MapSet(gateways, threads[t].method, threads[t].g[1])
    /\ Advance(t, threads[t])
    /\ UNCHANGED <<registries, granted, factories, pmRegistry, last, mu>>

NotConfiguredPlainError(method) == <<"gateway " \o method \o " is not configured">>

\* the error of a failed lookup in pm.gateways, by the statement that looks up
LookupError(stmt, method) ==
    CASE stmt = "ReadGateways" -> NotRegisteredError(method)
      [] stmt = "ReadGatewaysConfigured" ->
            NotConfiguredError(method, NotRegisteredError(method))
      [] stmt = "CheckConfigured" -> NotConfiguredPlainError(method)

GatewayLookups == {"ReadGateways", "ReadGatewaysConfigured", "CheckConfigured"}

\* g, ok := pm.gateways[method]
StmtReadGateways(t) ==
    /\ \E stmt \in GatewayLookups : Runs(t, stmt)
    /\ IF threads[t].method \in DOMAIN gateways
           THEN Advance(t, [threads[t] EXCEPT !.g = <<gateways[threads[t].method]>>])
           ELSE Advance(t, [threads[t] EXCEPT
                    !.err = LookupError(At(t), threads[t].method)])
    /\ UNCHANGED <<registries, granted, gateways, factories, pmRegistry, last, mu>>

\* the loop of GetAvailableGatewaysForCountry over pm.gateways
StmtFilterConfigured(t) ==
    /\ Runs(t, "FilterConfigured")
    /\ Advance(t, [threads[t] EXCEPT !.list = Configured(threads[t].list)])
    /\ UNCHANGED <<registries, granted, gateways, factories, pmRegistry, last, mu>>

\* the body of r.IsGatewayAvailable, called directly or by
\* r.ValidateGatewayForCountry
StmtRegIsAvailable(t) ==
    /\ Runs(t, "RegIsAvailable") \/ Runs(t, "RegValidate")
    /\ LET r == registries[threads[t].reg]
           ok == IsGatewayAvailable(r, threads[t].country, threads[t].method)
       IN  Advance(t, [threads[t] EXCEPT
               !.ok = ok,
               !.err = IF At(t) = "RegValidate"
                           THEN RegistryValidate(r, threads[t].country, threads[t].method)
                           ELSE <<>>])
    /\ UNCHANGED <<registries, granted, gateways, factories, pmRegistry, last, mu>>

\* the body of r.GetAvailableGateways
StmtRegGetAvailable(t) ==
    /\ Runs(t, "RegGetAvailable")
    /\ \E available \in GetAvailableGateways(registries[threads[t].reg], threads[t].country) :
            Advance(t, [threads[t] EXCEPT !.list = available])
    /\ UNCHANGED <<registries, granted, gateways, factories, pmRegistry, last, mu>>

\* the body of r.GetRecommendations
StmtRegGetRecommendations(t) ==
    /\ Runs(t, "RegGetRecommendations")
    /\ \E res \in GetRecommendations(registries[threads[t].reg], threads[t].country) :
            Advance(t, [threads[t] EXCEPT !.list = res.sorted])
    /\ UNCHANGED <<registries, granted, gateways, factories, pmRegistry, last, mu>>

\* the loop of GetGatewayRecommendations over pm.gateways
StmtMarkConfigured(t) ==
    /\ Runs(t, "MarkConfigured")
    /\ Advance(t, [threads[t] EXCEPT !.list = OverwriteAvailable(threads[t].list)])
    /\ UNCHANGED <<registries, granted, gateways, factories, pmRegistry, last, mu>>

\* the registration goroutine t is making, applied to registry r
Registration(t, r) ==
    CASE threads[t].op = "RegisterGlobalGateway" ->
            DoRegisterGlobal(r, threads[t].method, ConcPriority)
      [] threads[t].op = "RegisterRegionGateway" ->
            DoRegisterRegion(r, GetRegion(threads[t].country), threads[t].method,
                             ConcPriority)
      [] threads[t].op = "RegisterCountryGateway" ->
            DoRegisterCountry(r, threads[t].country, threads[t].method, ConcPriority)

RegistrationGrant(t) ==
    CASE threads[t].op = "RegisterGlobalGateway" -> GlobalGrant(threads[t].method)
      [] threads[t].op = "RegisterRegionGateway" ->
            RegionGrant(GetRegion(threads[t].country), threads[t].method)
      [] threads[t].op = "RegisterCountryGateway" ->
            CountryGrant(threads[t].country, threads[t].method)

\* r.globalGateways[method] = true, and for a region or a country the map of
\* the scope is made when it is nil and the method set in it
StmtRegWrite(t) ==
    /\ Runs(t, "RegWrite")
    /\ LET r == registries[threads[t].reg]
       IN  registries' = [registries EXCEPT ![threads[t].reg] =
               [Registration(t, r) EXCEPT !.gatewayPriority = r.gatewayPriority]]
    /\ granted' = [granted EXCEPT ![threads[t].reg] = @ \cup {RegistrationGrant(t)}]
    /\ Advance(t, threads[t])
    /\ UNCHANGED <<gateways, factories, pmRegistry, last, mu>>

\* r.gatewayPriority[method] = priority
StmtRegWritePriority(t) ==
    /\ Runs(t, "RegWritePriority")
    /\ registries' = [registries EXCEPT ![threads[t].reg].gatewayPriority =
                          MapSet(@, threads[t].method, ConcPriority)]
    /\ Advance(t, threads[t])
    /\ UNCHANGED <<granted, gateways, factories, pmRegistry, last, mu>>

\* the rest of GetRecommendedGateway: available[0], or the error when
\* available is empty
StmtTakeFirst(t) ==
    /\ Runs(t, "TakeFirst")
    /\ LET rec == GetRecommendedGateway(threads[t].country, threads[t].list)
       IN  Advance(t, [threads[t] EXCEPT !.method = rec.ret, !.err = rec.err])
    /\ UNCHANGED <<registries, granted, gateways, factories, pmRegistry, last, mu>>

\* the instance operation a call ends in
InstanceOperation(op) == IF op \in DispatchOps THEN op ELSE "InitiatePayment"

\* return g.InitiatePayment(ctx, req), and likewise for the other three
StmtCallInstance(t) ==
    /\ Runs(t, "CallInstance")
    /\ \E outcome \in Outcomes :
            Advance(t, [threads[t] EXCEPT
                !.err = GatewayAnswer(threads[t].g[1], InstanceOperation(threads[t].op),
                                      outcome).err])
    /\ UNCHANGED <<registries, granted, gateways, factories, pmRegistry, last, mu>>

\* the call is returning: a statement after the failed one is not executed
StmtPassOver(t) ==
    /\ At(t) \notin Releases \cup {""}
    /\ threads[t].err # <<>>
    /\ Advance(t, threads[t])
    /\ UNCHANGED <<registries, granted, gateways, factories, pmRegistry, last, mu>>

\* the call has returned
Finish(t) ==
    /\ threads[t].op # "" /\ At(t) = ""
    /\ threads' = [threads EXCEPT ![t] = Idle]
    /\ UNCHANGED <<registries, granted, gateways, factories, pmRegistry, last, mu>>

\* the calls of the manager's concurrent callers, one of whom also registers
\* on the caller's registry
ConcOps == (DOMAIN Program \ RegistryOps) \cup {"RegisterGlobalGateway"}

ConcBegin ==
    \E t \in Goroutines, op \in ConcOps :
        \E rid \in RegistryArguments(op) : Begin(t, op, rid)

NextConcurrent ==
    \/ ConcBegin
    \/ \E t \in Goroutines : StmtLock(t)
    \/ \E t \in Goroutines : StmtRLock(t)
    \/ \E t \in Goroutines : StmtUnlock(t)
    \/ \E t \in Goroutines : StmtRegLock(t)
    \/ \E t \in Goroutines : StmtRegRLock(t)
    \/ \E t \in Goroutines : StmtRegUnlock(t)
    \/ \E t \in Goroutines : StmtReadRegistry(t)
    \/ \E t \in Goroutines : StmtWriteRegistry(t)
    \/ \E t \in Goroutines : StmtWriteFactories(t)
    \/ \E t \in Goroutines : StmtReadFactories(t)
    \/ \E t \in Goroutines : StmtWriteGateways(t)
    \/ \E t \in Goroutines : StmtReadGateways(t)
    \/ \E t \in Goroutines : StmtFilterConfigured(t)
    \/ \E t \in Goroutines : StmtRegIsAvailable(t)
    \/ \E t \in Goroutines : StmtRegGetAvailable(t)
    \/ \E t \in Goroutines : StmtRegGetRecommendations(t)
    \/ \E t \in Goroutines : StmtMarkConfigured(t)
    \/ \E t \in Goroutines : StmtRegWrite(t)
    \/ \E t \in Goroutines : StmtRegWritePriority(t)
    \/ \E t \in Goroutines : StmtTakeFirst(t)
    \/ \E t \in Goroutines : StmtCallInstance(t)
    \/ \E t \in Goroutines : StmtPassOver(t)
    \/ \E t \in Goroutines : Finish(t)

SpecConcurrent == Init /\ [][NextConcurrent]_vars

\* the field of the manager a statement reads or writes ("" for none)
FieldOf(stmt) ==
    CASE stmt \in {"ReadRegistry", "WriteRegistry"} -> "registry"
      [] stmt \in {"ReadFactories", "WriteFactories"} -> "factories"
      [] stmt \in GatewayLookups \cup {"FilterConfigured", "MarkConfigured", "WriteGateways"}
            -> "gateways"
      [] OTHER -> ""
ManagerWrites == {"WriteRegistry", "WriteFactories", "WriteGateways"}

\* goroutine t is about to execute a statement that reads or writes field
Accessing(t, field) == FieldOf(At(t)) = field /\ threads[t].err = <<>>

\* C17: the mutations of the manager exclude each other and every read of
\* the manager's state: no goroutine is about to write a field of the manager
\* (pm.registry, pm.factories, pm.gateways) while another goroutine is about
\* to read or write the same field; in particular SetRegistry never writes
\* pm.registry while another caller reads it.
C17_ManagerStateUnderLock ==
    \A w, t \in Goroutines :
        (w # t /\ At(w) \in ManagerWrites /\ Accessing(w, FieldOf(At(w))))
            => ~Accessing(t, FieldOf(At(w)))


(***************************************************************************)
(* Properties of the registry's reads across calls and scopes.             *)
(***************************************************************************)
\* C21: the sequence GetAvailableGateways(c) returned is the only one a call
\* on the same registry state can return: the order of methods of equal
\* priority does not vary from call to call.
C21_DeterministicOrder ==
    last.op = "GetAvailableGateways" =>
        \A list \in GetAvailableGateways(registries[last.rid], last.key) :
            list = last.ret


(***************************************************************************)
(* region.go: the two geography tables and their lookups, called on their  *)
(* own and through the region scope of a registry.                         *)
(***************************************************************************)
\* RegionMap: region -> its countries, in the order of the source
RegionMap ==
    [region \in {RegionSouthAsia, RegionSoutheastAsia, RegionEastAsia,
                 RegionNorthAmerica, RegionEurope, RegionMiddleEast,
                 RegionAfrica, RegionOceania, RegionLatinAmerica} |->
        CASE region = RegionSouthAsia -> <<"NP", "IN", "PK", "BD", "LK">>
          [] region = RegionSoutheastAsia -> <<"SG", "MY", "ID", "TH", "PH", "VN">>
          [] region = RegionEastAsia -> <<"CN", "JP", "KR">>
          [] region = RegionNorthAmerica -> <<"US", "CA", "MX">>
          [] region = RegionEurope -> <<"GB", "DE", "FR", "ES", "IT">>
          [] region = RegionMiddleEast -> <<"AE", "SA">>
          [] region = RegionAfrica -> <<"NG", "ZA", "KE">>
          [] region = RegionOceania -> <<"AU", "NZ">>
          [] region = RegionLatinAmerica -> <<"BR", "AR">>]

GetCountriesInRegion(region) ==
    IF region \in DOMAIN RegionMap
        THEN RegionMap[region]
        ELSE <<>>

CallGetRegion(country) ==
    /\ Ready
    /\ last' = [NoCall EXCEPT !.op = "GetRegion", !.key = country,
                              !.ret = GetRegion(country)]
    /\ UNCHANGED <<mu, threads, registries, granted, gateways, factories, pmRegistry>>

CallGetCountriesInRegion(region) ==
    /\ Ready
    /\ last' = [NoCall EXCEPT !.op = "GetCountriesInRegion", !.key = region,
                              !.ret = GetCountriesInRegion(region)]
    /\ UNCHANGED <<mu, threads, registries, granted, gateways, factories, pmRegistry>>

\* the country codes and regions callers ask about: every listed one, the
\* GLOBAL sentinel and the "global" region, and codes no table lists
GeoCountries == TableCountries \cup {CountryGlobal, "XX", ""}
GeoRegions == DOMAIN RegionMap \cup {RegionGlobal, "antarctica", ""}
GeoMethod == "esewa"

GeoRegisterRegion ==
    \E region \in GeoRegions \ {""} :
        /\ RoomFor(OwnRegistry, RegionGrant(region, GeoMethod))
        /\ RegisterRegionGateway(OwnRegistry, region, GeoMethod, 1)

GeoGetRegion == \E c \in GeoCountries : CallGetRegion(c)

GeoGetCountriesInRegion == \E region \in GeoRegions : CallGetCountriesInRegion(region)

GeoIsGatewayAvailable ==
    \E c \in GeoCountries : CallIsGatewayAvailable(OwnRegistry, c, GeoMethod)

NextGeography ==
    \/ GeoRegisterRegion
    \/ GeoGetRegion
    \/ GeoGetCountriesInRegion
    \/ GeoIsGatewayAvailable
    \/ Return

SpecGeography == Init /\ [][NextGeography]_vars

\* the regions whose list in RegionMap holds the country
RegionsListing(country) ==
    {region \in DOMAIN RegionMap : country \in Range(RegionMap[region])}

\* C22: GetRegion returns, for a country a table lists, the one region that
\* lists it, and "global" for every other code, the GLOBAL sentinel included;
\* GetCountriesInRegion returns, for a region of the table, exactly the
\* countries GetRegion sends to it, each once, and the empty sequence for
\* every other region, "global" included; each call returns a value.
C22_GeographyTotal ==
    /\ last.op = "GetRegion" =>
          IF last.key \in TableCountries
              THEN RegionsListing(last.key) = {last.ret}
              ELSE last.ret = RegionGlobal /\ RegionsListing(last.key) = {}
    /\ last.op = "GetCountriesInRegion" =>
          IF last.key \in DOMAIN RegionMap
              THEN /\ Range(last.ret) = {c \in GeoCountries : GetRegion(c) = last.key}
                   /\ NoDuplicates(last.ret)
                   /\ last.ret # <<>>
              ELSE last.ret = <<>>

\* C22 witness: the GLOBAL sentinel, which no table lists, is looked up and
\* comes back as the "global" region.
C22_Witness ==
    /\ last.op = "GetRegion"
    /\ last.key = CountryGlobal
    /\ last.ret = RegionGlobal


(***************************************************************************)
(* setup: SetupPaymentManagerWithDefaults(configs), statement by           *)
(* statement: the factories, an instance for each configuration (ranged    *)
(* over in map order), the registrations of createDefaultRegistry on a new *)
(* registry, SetRegistry; then the caller reads.                           *)
(***************************************************************************)
\* pm.RegisterFactory(method, factory), in the order of SetupPaymentManager
SetupFactories ==
    << <<"esewa", "esewa.New">>, <<"khalti", "khalti.New">>,
       <<"imepay", "imepay.New">>, <<"connectips", "connectips.New">>,
       <<"stripe", "stripe.New">>, <<"paypal", "paypal.New">>,
       <<"razorpay", "razorpay.New">> >>

\* the keys of configs
SetupConfigs ==
    {"esewa", "khalti", "imepay", "connectips", "razorpay", "stripe", "paypal"}

\* the registrations of createDefaultRegistry, in order
createDefaultRegistry ==
    << CountryGrant("NP", "esewa") \o <<1>>, CountryGrant("NP", "khalti") \o <<2>>,
       CountryGrant("NP", "imepay") \o <<3>>, CountryGrant("NP", "connectips") \o <<4>>,
       CountryGrant("IN", "razorpay") \o <<1>>, CountryGrant("IN", "paytm") \o <<2>>,
       CountryGrant("US", "stripe") \o <<1>>, CountryGrant("US", "paypal") \o <<2>>,
       CountryGrant("CA", "stripe") \o <<1>>, CountryGrant("CA", "paypal") \o <<2>>,
       CountryGrant("GB", "stripe") \o <<1>>, CountryGrant("GB", "paypal") \o <<2>>,
       RegionGrant(RegionNorthAmerica, "stripe") \o <<1>>,
       RegionGrant(RegionNorthAmerica, "paypal") \o <<2>>,
       RegionGrant(RegionEurope, "stripe") \o <<1>>,
       RegionGrant(RegionEurope, "paypal") \o <<2>>,
       RegionGrant(RegionOceania, "stripe") \o <<1>>,
       RegionGrant(RegionOceania, "paypal") \o <<2>> >>

\* how far the setup has come
FactoriesDone == Cardinality(DOMAIN factories) = Len(SetupFactories)
ConfigsDone == FactoriesDone /\ SetupConfigs \subseteq DOMAIN gateways
RegistrationsDone ==
    ConfigsDone /\ Cardinality(granted[CallerRegistry]) = Len(createDefaultRegistry)
SetupDone == RegistrationsDone /\ pmRegistry = CallerRegistry

SetupRegisterFactory ==
    /\ ~FactoriesDone
    /\ LET f == SetupFactories[Cardinality(DOMAIN factories) + 1]
       IN  RegisterFactory(f[1], f[2])

\* for method, config := range configs { pm.RegisterGatewayWithConfig(...) }
SetupRegisterGatewayWithConfig ==
    /\ FactoriesDone
    /\ \E method \in SetupConfigs \ DOMAIN gateways :
           RegisterGatewayWithConfig(method, "sandbox")

SetupRegister ==
    /\ ConfigsDone /\ ~RegistrationsDone
    /\ LET g == createDefaultRegistry[Cardinality(granted[CallerRegistry]) + 1]
       IN  IF g[1] = "country"
               THEN RegisterCountryGateway(CallerRegistry, g[2], g[3], g[4])
               ELSE RegisterRegionGateway(CallerRegistry, g[2], g[3], g[4])

SetupSetRegistry ==
    /\ RegistrationsDone /\ ~SetupDone
    /\ SetRegistry(CallerRegistry)

\* the countries and methods the caller of the finished manager asks about
SetupCountries == {"NP", "IN", "US", "CA", "GB", "XX"}
SetupMethods == SetupConfigs \cup {"paytm"}

SetupGetAvailableGatewaysForCountry ==
    /\ SetupDone
    /\ \E c \in SetupCountries : CallGetAvailableGatewaysForCountry(c)

\* pm.IsGatewayAvailable(country, method)
SetupIsGatewayAvailable ==
    /\ SetupDone
    /\ \E c \in SetupCountries, m \in SetupMethods : CallIsGatewayAvailable(pmRegistry, c, m)

NextSetup ==
    \/ SetupRegisterFactory
    \/ SetupRegisterGatewayWithConfig
    \/ SetupRegister
    \/ SetupSetRegistry
    \/ SetupGetAvailableGatewaysForCountry
    \/ SetupIsGatewayAvailable
    \/ Return

SpecSetup == Init /\ [][NextSetup]_vars

\* C23: on the manager SetupPaymentManagerWithDefaults returns for the seven
\* configurations, GetAvailableGatewaysForCountry gives esewa, khalti, imepay,
\* connectips for NP, razorpay for IN and stripe, paypal for US, CA and GB;
\* IsGatewayAvailable is false for (NP, stripe), (NP, paypal), (IN, esewa),
\* (US, esewa) and true for (US, stripe), (US, paypal).
C23_DefaultsScenario ==
    /\ (SetupDone /\ last.op = "GetAvailableGatewaysForCountry") =>
          /\ last.key = "NP" => last.ret = <<"esewa", "khalti", "imepay", "connectips">>
          /\ last.key = "IN" => last.ret = <<"razorpay">>
          /\ last.key \in {"US", "CA", "GB"} => last.ret = <<"stripe", "paypal">>
    /\ (SetupDone /\ last.op = "IsGatewayAvailable") =>
          /\ <<last.key, last.method>> \in
                 {<<"NP", "stripe">>, <<"NP", "paypal">>, <<"IN", "esewa">>,
                  <<"US", "esewa">>} => last.ret = FALSE
          /\ <<last.key, last.method>> \in {<<"US", "stripe">>, <<"US", "paypal">>}
                 => last.ret = TRUE

\* C23 witness: the finished manager is asked for India, where paytm is
\* registered but has no configuration, and answers razorpay alone.
C23_Witness ==
    /\ SetupDone
    /\ last.op = "GetAvailableGatewaysForCountry"
    /\ last.key = "IN"
    /\ last.ret = <<"razorpay">>


\* C24: a goroutine that is inside an instance's operation on behalf of a
\* dispatch holds no lock, neither pm.mu nor the mu of a registry.
C24_NoLockAcrossInstanceCall ==
    \A t \in Goroutines :
        Runs(t, "CallInstance") => \A l \in LockIds : ~Holds(t, l)

\* C24 witness: while one goroutine is inside an instance's operation,
\* another has taken pm.mu for writing and is about to install an instance.
C24_Witness ==
    \E t, w \in Goroutines :
        /\ Runs(t, "CallInstance")
        /\ w \in mu[ManagerLock].writer
        /\ At(w) = "WriteGateways"


(***************************************************************************)
(* Concurrent callers of one registry: registrations in the three scopes   *)
(* and the registry's reads.                                               *)
(***************************************************************************)
RegConcBegin ==
    \E t \in Goroutines, op \in RegistryOps : Begin(t, op, CallerRegistry)

NextRegistryConcurrent ==
    \/ RegConcBegin
    \/ \E t \in Goroutines : StmtRegLock(t)
    \/ \E t \in Goroutines : StmtRegRLock(t)
    \/ \E t \in Goroutines : StmtRegUnlock(t)
    \/ \E t \in Goroutines : StmtRegWrite(t)
    \/ \E t \in Goroutines : StmtRegWritePriority(t)
    \/ \E t \in Goroutines : StmtRegIsAvailable(t)
    \/ \E t \in Goroutines : StmtRegGetAvailable(t)
    \/ \E t \in Goroutines : Finish(t)

SpecRegistryConcurrent == Init /\ [][NextRegistryConcurrent]_vars

\* the methods some eligibility map of r holds
EligibleSomewhere(r) ==
    r.globalGateways
        \cup UNION {r.regionGateways[k] : k \in DOMAIN r.regionGateways}
        \cup UNION {r.countryGateways[k] : k \in DOMAIN r.countryGateways}

\* C25: whenever the write lock of a registry is not held, and so whenever a
\* reader is inside one of its reads, every method an eligibility map of the
\* registry holds has an entry in the priority map.
C25_RegistrationAtomic ==
    \A rid \in RegistryIds :
        (mu[rid].writer = {} \/ mu[rid].readers # {})
            => EligibleSomewhere(registries[rid])
                   \subseteq DOMAIN registries[rid].gatewayPriority

\* C25 witness: one goroutine is between the two writes of a registration,
\* the method eligible and its priority missing, while the other stands
\* before RLock.
C25_Witness ==
    \E w, t \in Goroutines :
        /\ At(w) = "RegWritePriority"
        /\ threads[w].method \notin DOMAIN registries[threads[w].reg].gatewayPriority
        /\ At(t) = "RegRLock"
        /\ threads[t].reg = threads[w].reg


\* C26: no step of a registry takes eligibility away: a pair (country,
\* method) IsGatewayAvailable accepts is accepted after the step as well, and
\* the methods GetAvailableGateways lists for a country are still listed.
C26_EligibilityMonotone ==
    [][\A rid \in RegistryIds, c \in Countries :
          /\ \A m \in Methods :
                IsGatewayAvailable(registries[rid], c, m)
                    => IsGatewayAvailable(registries'[rid], c, m)
          /\ GatewaysMap(registries[rid], c) \subseteq GatewaysMap(registries'[rid], c)]_vars

\* C26 witness: a second method has just been registered for a region in
\* which a first one is eligible, and the first is still listed.
C26_Witness ==
    /\ last.op = "RegisterRegionGateway"
    /\ \E m \in Methods \ {last.method} :
          /\ RegionGrant(last.key, m) \in granted[last.rid]
          /\ \E c \in Countries :
                /\ GetRegion(c) = last.key
                /\ {m, last.method} \subseteq GatewaysMap(registries[last.rid], c)


\* goroutine t is past the point where its call settled on an instance:
\* inside InitiatePaymentForCountry GetRecommendedGateway has returned a
\* method, inside InitiatePaymentWithMethod the configured-check has found
\* the method's instance
Settled(t) ==
    \/ /\ threads[t].op = "InitiatePaymentForCountry"
       /\ threads[t].pc > Len(GetAvailableBody) + 1
       /\ threads[t].method # ""
    \/ /\ threads[t].op = "InitiatePaymentWithMethod"
       /\ threads[t].pc > Len(ValidateBody) + Len(GetGatewayBody)
       /\ threads[t].g # <<>>

\* C27: no step removes a key of pm.gateways, and the dispatch that follows
\* the recommendation inside InitiatePaymentForCountry, or the configured-
\* check inside InitiatePaymentWithMethod, never ends in the 'not registered'
\* error, whatever the other goroutine does in between.
C27_InstanceStays ==
    [][/\ DOMAIN gateways \subseteq DOMAIN gateways'
       /\ \A t \in Goroutines :
             Settled(t)' => threads'[t].err # NotRegisteredError(threads'[t].method)]_vars

\* C27 witness: a goroutine inside InitiatePaymentForCountry has looked its
\* recommended method up and stands at the instance call, the manager's
\* registry having been swapped since it read it.
C27_Witness ==
    \E t \in Goroutines :
        /\ threads[t].op = "InitiatePaymentForCountry"
        /\ Settled(t)
        /\ Runs(t, "CallInstance")
        /\ threads[t].g # <<>>
        /\ pmRegistry # threads[t].reg


\* C28: in every state the four reads of a registry agree on every country c
\* and method m: IsGatewayAvailable(c, m) is true exactly when m is in each
\* sequence GetAvailableGateways(c) can return, exactly when m is the Method
\* of an entry of each sequence GetRecommendations(c) can return, and exactly
\* when ValidateGatewayForCountry(c, m) returns no error.
C28_ReadsAgree ==
    \A rid \in RegistryIds, c \in Countries, m \in Methods :
        LET r == registries[rid]
            available == IsGatewayAvailable(r, c, m)
        IN  /\ \A list \in GetAvailableGateways(r, c) :
                   available <=> m \in Range(list)
            /\ \A res \in GetRecommendations(r, c) :
                   available <=> \E i \in DOMAIN res.sorted : res.sorted[i].Method = m
            /\ available <=> RegistryValidate(r, c, m) = <<>>

\* C28 witness: GetRecommendations has just listed, for a country, a method
\* only the country's region grants, which IsGatewayAvailable accepts and
\* GetAvailableGateways lists.
C28_Witness ==
    /\ last.op = "GetRecommendations"
    /\ \E i \in DOMAIN last.ret :
          /\ last.ret[i].Scope = "region"
          /\ IsGatewayAvailable(registries[last.rid], last.key, last.ret[i].Method)
          /\ \A list \in GetAvailableGateways(registries[last.rid], last.key) :
                 last.ret[i].Method \in Range(list)
    /\ \E m \in Methods : ~IsGatewayAvailable(registries[last.rid], last.key, m)


\* C29: the sequence GetRecommendations(c) returns holds each method
\* eligible for c exactly once, under the narrowest scope that grants it
\* ("country", else "region", else "global"), every entry with the priority
\* GetGatewayPriority gives its method, in ascending order of Priority.
C29_OnceNarrowestSorted ==
    last.op = "GetRecommendations" =>
        LET r == registries[last.rid]
            recs == last.ret
        IN  /\ \A m \in GatewaysMap(r, last.key) :
                   Cardinality({i \in DOMAIN recs : recs[i].Method = m}) = 1
            /\ \A i \in DOMAIN recs :
                   /\ recs[i].Method \in GatewaysMap(r, last.key)
                   /\ recs[i].Scope = NarrowestScope(last.rid, last.key, recs[i].Method)
                   /\ recs[i].Priority = GetGatewayPriority(r, recs[i].Method)
            /\ \A i, j \in DOMAIN recs : i < j => recs[i].Priority <= recs[j].Priority

\* C29 witness: a global entry of smaller priority comes back before a
\* country entry, and a method granted by two scopes is among the entries.
C29_Witness ==
    /\ last.op = "GetRecommendations"
    /\ \E i, j \in DOMAIN last.ret :
          /\ i < j
          /\ last.ret[i].Scope = "global" /\ last.ret[j].Scope = "country"
          /\ last.ret[i].Priority < last.ret[j].Priority
    /\ \E i \in DOMAIN last.ret :
          Cardinality({g \in AppliedGrants(last.rid, last.key) :
                          g[3] = last.ret[i].Method}) = 2



(***************************************************************************)
(* Termination of concurrent calls.  The scheduler runs every goroutine    *)
(* that can take a step (weak fairness of the steps that take no lock),    *)
(* and sync.RWMutex hands the mutex to a goroutine that waits for it: a    *)
(* pending Lock keeps later readers out, and the readers that waited are   *)
(* let in when the writer unlocks (strong fairness of the acquisitions).   *)
(* The callers make the calls that take one lock inside the other, the     *)
(* call that takes them one after the other, and a writer of each lock;    *)
(* the registrations are made on the manager's registry.                   *)
(***************************************************************************)
LiveOps ==
    {"RegisterGateway", "GetAvailableGatewaysForCountry", "GetGatewayRecommendations",
     "ValidateGatewayForCountry", "RegisterGlobalGateway"}

LiveBegin ==
    \E t \in Goroutines, op \in LiveOps :
        Begin(t, op, IF op \in RegistryOps THEN pmRegistry ELSE "")

\* the acquisitions of goroutine t
Acquire(t) ==
    \/ StmtLock(t)
    \/ StmtRLock(t)
    \/ StmtRegLock(t)
    \/ StmtRegRLock(t)

\* the other statements of goroutine t, and its return
Proceed(t) ==
    \/ StmtUnlock(t)
    \/ StmtRegUnlock(t)
    \/ StmtReadRegistry(t)
    \/ StmtWriteGateways(t)
    \/ StmtReadGateways(t)
    \/ StmtFilterConfigured(t)
    \/ StmtRegIsAvailable(t)
    \/ StmtRegGetAvailable(t)
    \/ StmtRegGetRecommendations(t)
    \/ StmtMarkConfigured(t)
    \/ StmtRegWrite(t)
    \/ StmtRegWritePriority(t)
    \/ StmtPassOver(t)
    \/ Finish(t)

NextLive ==
    \/ LiveBegin
    \/ \E t \in Goroutines : Acquire(t)
    \/ \E t \in Goroutines : Proceed(t)

Scheduling ==
    \A t \in Goroutines : WF_vars(Proceed(t)) /\ SF_vars(Acquire(t))

SpecLive == Init /\ [][NextLive]_vars /\ Scheduling

\* goroutine t is about to acquire lock l
Acquiring(t, l) ==
    /\ threads[t].err = <<>>
    /\ \/ l = ManagerLock /\ At(t) \in {"Lock", "RLock"}
       \/ l # ManagerLock /\ At(t) \in {"RegLock", "RegRLock"} /\ threads[t].reg = l

\* pm.mu before r.mu, no lock taken twice, no lock kept at the return
LockDiscipline ==
    \A t \in Goroutines :
        /\ Acquiring(t, ManagerLock) => \A l \in LockIds : ~Holds(t, l)
        /\ \A l \in RegistryIds :
               Acquiring(t, l) => \A k \in RegistryIds : ~Holds(t, k)
        /\ At(t) = "" => \A l \in LockIds : ~Holds(t, l) /\ t \notin mu[l].pending

\* C30: a goroutine acquires pm.mu only while it holds no lock and a
\* registry's mu only while it holds no registry's mu, it holds no lock when
\* its call returns, and every call that has begun returns.
C30_DeadlockFree ==
    /\ []LockDiscipline
    /\ \A t \in Goroutines : (threads[t].op # "") ~> (threads[t] = Idle)

\* C30 witness: one goroutine holds pm.mu and a registry's mu, both for
\* reading, while the other has called Lock on that registry's mu and waits.
C30_Witness ==
    \E t, w \in Goroutines :
        /\ t \in mu[ManagerLock].readers
        /\ threads[t].reg \in RegistryIds
        /\ t \in mu[threads[t].reg].readers
        /\ w \in mu[threads[t].reg].pending
        /\ At(w) = "RegLock"

====
